---- MODULE Spec2Model ----
(***************************************************************************)
(* NSR calculation engine (app/nsr_engine) and its Goal Seek solver.       *)
(*                                                                         *)
(* Python floats are modelled as decimal floating-point numbers: a record  *)
(* [m, e] stands for m * 10^e, the mantissa m holds at most Precision      *)
(* significant digits, every arithmetic operation rounds its exact result  *)
(* to nearest (ties to even), and results below 10^EMin underflow          *)
(* gradually to zero as binary64 does below 5e-324.  Records are kept in   *)
(* canonical form (no trailing zero in m), so = is numerical equality.     *)
(***************************************************************************)
EXTENDS Integers, Sequences, FiniteSets, TLC

\* Significant decimal digits a float keeps (the library needs Precision <= 8).
Precision == 7

\* Exponent of the smallest positive float: binary64 ends at 5e-324.
EMin == 0 - 324

\* ------------------------------------------------------------------------
\* Float arithmetic
\* ------------------------------------------------------------------------

Pow10(n) == <<1, 10, 100, 1000, 10000, 100000, 1000000, 10000000, 100000000,
              1000000000>>[n + 1]

AbsInt(n) == IF n < 0 THEN 0 - n ELSE n

SgnInt(n) == IF n < 0 THEN 0 - 1 ELSE IF n > 0 THEN 1 ELSE 0

MaxInt(m, n) == IF m > n THEN m ELSE n

\* Number of decimal digits of n >= 0 (0 has none).
NDigits(n) ==
    IF n = 0 THEN 0
    ELSE CHOOSE k \in 1..10 : Pow10(k - 1) <= n /\ (k = 10 \/ n < Pow10(k))

\* n / 10^k rounded to nearest, ties to even; sticky tells that the exact
\* value lies strictly above n (digits beyond n were non-zero).
RoundHalfEven(n, k, sticky) ==
    IF k = 0 THEN n
    ELSE IF \/ n % Pow10(k) > 5 * Pow10(k - 1)
            \/ /\ n % Pow10(k) = 5 * Pow10(k - 1)
               /\ (sticky \/ (n \div Pow10(k)) % 2 = 1)
         THEN (n \div Pow10(k)) + 1
         ELSE n \div Pow10(k)

RECURSIVE Strip(_, _)
Strip(m, e) ==
    IF m = 0 THEN [m |-> 0, e |-> 0]
    ELSE IF m % 10 = 0 THEN Strip(m \div 10, e + 1)
    ELSE [m |-> m, e |-> e]

\* sgn * n * 10^e with the last k digits of n rounded away.
NormDropping(sgn, n, e, sticky, k) ==
    IF k > 9 THEN [m |-> 0, e |-> 0]
    ELSE Strip(sgn * RoundHalfEven(n, k, sticky), e + k)

\* The float nearest to sgn * n * 10^e (n >= 0): the digits beyond the
\* precision, and those below the smallest float, are rounded away.
Norm(sgn, n, e, sticky) ==
    NormDropping(sgn, n, e, sticky, MaxInt(MaxInt(NDigits(n) - Precision, 0), EMin - e))

\* A literal: m * 10^e.
F(m, e) == Norm(SgnInt(m), AbsInt(m), e, FALSE)

Zero == [m |-> 0, e |-> 0]

Neg(x) == [m |-> 0 - x.m, e |-> x.e]

Abs(x) == [m |-> AbsInt(x.m), e |-> x.e]

\* hi.m * 10^s + lo.m / 10^t, rounded down to an integer, and whether it was
\* inexact; t > 9 leaves nothing of lo but its sign.
AlignedSum(hi, lo, s, t) ==
    [n |-> hi.m * Pow10(s) +
           (IF t > 9 THEN (IF lo.m < 0 THEN 0 - 1 ELSE 0) ELSE lo.m \div Pow10(t)),
     inexact |-> IF t > 9 THEN TRUE ELSE lo.m % Pow10(t) # 0]

\* sg * sum * 10^e, rounded.
AddRounded(sg, sum, e) ==
    IF sum.n >= 0 THEN Norm(sg, sum.n, e, sum.inexact)
    ELSE Norm(0 - sg, 0 - sum.n, e, FALSE)

\* hi shifted by s0 digits; by one more when a leading digit cancels.
AddAligned(sg, hi, lo, d, s0) ==
    IF d - s0 >= 1 /\ AbsInt(AlignedSum(hi, lo, s0, d - s0).n) < Pow10(8)
    THEN AddRounded(sg, AlignedSum(hi, lo, s0 + 1, d - s0 - 1), hi.e - s0 - 1)
    ELSE AddRounded(sg, AlignedSum(hi, lo, s0, d - s0), hi.e - s0)

\* hi.e >= lo.e, neither is zero; the sum is sg * (|hi| + sg * lo).
AddOrdered(sg, hi, lo) ==
    AddAligned(sg, [m |-> AbsInt(hi.m), e |-> hi.e], [m |-> sg * lo.m, e |-> lo.e],
               hi.e - lo.e,
               IF hi.e - lo.e < 9 - NDigits(AbsInt(hi.m)) THEN hi.e - lo.e
               ELSE 9 - NDigits(AbsInt(hi.m)))

Add(x, y) ==
    IF x.m = 0 THEN y
    ELSE IF y.m = 0 THEN x
    ELSE IF x.e >= y.e THEN AddOrdered(SgnInt(x.m), x, y)
    ELSE AddOrdered(SgnInt(y.m), y, x)

Sub(x, y) == Add(x, Neg(y))

\* sg * (H * 10^8 + L) * 10^e, rounded (L < 10^8).
MulRounded(sg, H, L, e, dH) ==
    IF H = 0 THEN Norm(sg, L, e, FALSE)
    ELSE Norm(sg, H * Pow10(9 - dH) + (L \div Pow10(dH - 1)), e + dH - 1,
              L % Pow10(dH - 1) # 0)

\* The product of the magnitudes from its partial products, in two halves.
MulCarried(sg, high, low, e) ==
    MulRounded(sg, high + (low \div 100000000), low % 100000000, e,
               NDigits(high + (low \div 100000000)))

\* a = a1 * 10^4 + a0, b = b1 * 10^4 + b0
MulSplit(sg, a1, a0, b1, b0, e) ==
    MulCarried(sg, a1 * b1 + ((a1 * b0 + a0 * b1) \div 10000),
               ((a1 * b0 + a0 * b1) % 10000) * 10000 + a0 * b0, e)

Mul(x, y) ==
    IF x.m = 0 \/ y.m = 0 THEN Zero
    ELSE MulSplit(SgnInt(x.m) * SgnInt(y.m), AbsInt(x.m) \div 10000, AbsInt(x.m) % 10000,
                  AbsInt(y.m) \div 10000, AbsInt(y.m) % 10000, x.e + y.e)

\* Long division of a by b, digit by digit, up to nine digits of quotient.
RECURSIVE DivLoop(_, _, _, _, _)
DivLoop(sg, q, r, b, e) ==
    IF NDigits(q) >= 9 THEN Norm(sg, q, e, r # 0)
    ELSE DivLoop(sg, q * 10 + ((r * 10) \div b), (r * 10) % b, b, e - 1)

\* x / y for y # 0.
Div(x, y) ==
    IF x.m = 0 THEN Zero
    ELSE DivLoop(SgnInt(x.m) * SgnInt(y.m), AbsInt(x.m) \div AbsInt(y.m),
                 AbsInt(x.m) % AbsInt(y.m), AbsInt(y.m), x.e - y.e)

\* |x| < |y| for x, y # 0 of dx and dy digits
AbsLtDigits(x, y, dx, dy) ==
    \/ dx + x.e < dy + y.e
    \/ /\ dx + x.e = dy + y.e
       /\ AbsInt(x.m) * Pow10(9 - dx) < AbsInt(y.m) * Pow10(9 - dy)

AbsLt(x, y) ==
    IF y.m = 0 THEN FALSE
    ELSE IF x.m = 0 THEN TRUE
    ELSE AbsLtDigits(x, y, NDigits(AbsInt(x.m)), NDigits(AbsInt(y.m)))

Lt(x, y) ==
    IF SgnInt(x.m) # SgnInt(y.m) THEN SgnInt(x.m) < SgnInt(y.m)
    ELSE IF x.m = 0 THEN FALSE
    ELSE IF x.m > 0 THEN AbsLt(x, y)
    ELSE AbsLt(y, x)

Le(x, y) == ~Lt(y, x)

Gt(x, y) == Lt(y, x)

Ge(x, y) == ~Lt(x, y)

\* Python min(a, b): b when b < a, else a.
Min(x, y) == IF Lt(y, x) THEN y ELSE x

\* Python round(x, nd): to nd decimals, ties to even.
Round(x, nd) ==
    IF x.e >= 0 - nd THEN x
    ELSE IF (0 - nd) - x.e > 9 THEN Zero
    ELSE Norm(SgnInt(x.m), RoundHalfEven(AbsInt(x.m), (0 - nd) - x.e, FALSE), 0 - nd, FALSE)

\* Python x / y: ZeroDivisionError when the divisor is 0.0.
ZeroDivision == [m |-> 0, e |-> 0, exc |-> "ZeroDivisionError"]

IsExc(x) == "exc" \in DOMAIN x

PyDiv(x, y) == IF y.m = 0 THEN ZeroDivision ELSE Div(x, y)

\* Optional[float]: None or a float.
None == [some |-> FALSE, v |-> Zero]

Some(x) == [some |-> TRUE, v |-> x]

\* Python "value or default": None and 0.0 are both falsy.
PyOr(opt, default) == IF opt.some /\ opt.v.m # 0 THEN opt.v ELSE default

\* Python "value if value is not None else default".
IfNotNone(opt, default) == IF opt.some THEN opt.v ELSE default

One == F(1, 0)

Hundred == F(100, 0)

\* ------------------------------------------------------------------------
\* constants.py
\* ------------------------------------------------------------------------

LB_PER_TONNE == F(220462, 0 - 2)

TROY_OZ_PER_GRAM == F(321507466, 0 - 10)

DEFAULT_CU_PRICE_PER_LB == F(628, 0 - 2)

DEFAULT_AU_PRICE_PER_OZ == F(5360, 0)

DEFAULT_AG_PRICE_PER_OZ == F(11639, 0 - 2)

DEFAULT_CU_PAYABILITY == F(9665, 0 - 4)

DEFAULT_CU_TC == F(40, 0)

DEFAULT_CU_RC == F(190, 0 - 2)

DEFAULT_CU_FREIGHT == F(84, 0)

DEFAULT_CU_PENALTIES == Zero

DEFAULT_AU_PAYABILITY == F(90, 0 - 2)

DEFAULT_AU_RC == F(4, 0)

DEFAULT_AG_PAYABILITY == F(90, 0 - 2)

DEFAULT_AG_RC == F(35, 0 - 2)

DEFAULT_CU_CONC_GRADE == F(335, 0 - 1)

DEFAULT_AU_RECOVERY == F(60, 0 - 2)

DEFAULT_AG_RECOVERY == F(60, 0 - 2)

\* Imported by calculations.py; constants.py as given does not define them.
DEFAULT_MINE_COST == F(28, 0)

DEFAULT_DEVELOPMENT_COST == F(2500, 0)

DEFAULT_DEVELOPMENT_METERS == Zero

DEFAULT_HAUL_COST == F(4, 0)

DEFAULT_PLANT_COST == F(7, 0)

DEFAULT_GA_COST == F(5, 0)

Params(a, b, fixed) == [a |-> a, b |-> b, fixed |-> fixed]

RECOVERY_PARAMS ==
    [area \in {"Vermelhos Sul", "UG03", "N5/UG04", "N8 - UG", "N8", "N9"}
        |-> Params(F(28286, 0 - 4), F(92584, 0 - 3), None)] @@
    [area \in {"Deepening Below - 965", "BARAUNA", "HONEYPOT", "PROJETO N-100"}
        |-> Params(F(40851, 0 - 4), F(90346, 0 - 3), None)] @@
    [area \in {"R22UG", "MSBW"}
        |-> Params(F(30368, 0 - 4), F(91539, 0 - 3), None)] @@
    [area \in {"Surubim OP", "C12 OP", "C12 UG", "Sucuarana OP", "S10", "S5"}
        |-> Params(F(40718, 0 - 4), F(87885, 0 - 3), None)] @@
    ("Deepening Above - 965" :>
        Params(F(40851, 0 - 4), F(90346, 0 - 3), Some(F(929, 0 - 1)))) @@
    ("MSBSUL" :> Params(F(75986, 0 - 4), F(85494, 0 - 3), Some(F(90, 0)))) @@
    ("P1P2NE" :> Params(F(23826, 0 - 4), F(91442, 0 - 3), None)) @@
    ("P1P2W" :> Params(F(88922, 0 - 4), F(87637, 0 - 3), None)) @@
    ("GO2040" :> Params(F(54967, 0 - 4), F(88751, 0 - 3), None)) @@
    ("EAST LIMB" :> Params(Zero, F(91, 0), Some(F(91, 0))))

DEFAULT_RECOVERY_PARAMS == Params(F(3, 0), F(90, 0), None)

\* ------------------------------------------------------------------------
\* calculations.py: the sub-functions
\* ------------------------------------------------------------------------

\* dict.get(key, default)
get(dict, key, default) == IF key \in DOMAIN dict THEN dict[key] ELSE default

\* compute_cu_recovery without the cap at 1.0.
cu_recovery_uncapped(cu_grade_pct, area) ==
    LET Recovery(params) ==
            IF params.fixed.some THEN Div(params.fixed.v, Hundred)
            ELSE Div(Add(Mul(params.a, cu_grade_pct), params.b), Hundred)
    IN  Recovery(get(RECOVERY_PARAMS, area, DEFAULT_RECOVERY_PARAMS))

\* compute_cu_recovery without the fixed-value override.
cu_recovery_linear(cu_grade_pct, area) ==
    Min(Div(Add(Mul(get(RECOVERY_PARAMS, area, DEFAULT_RECOVERY_PARAMS).a, cu_grade_pct),
                get(RECOVERY_PARAMS, area, DEFAULT_RECOVERY_PARAMS).b), Hundred), One)

compute_cu_recovery(cu_grade_pct, area) ==
    LET Recovery(params) ==
            IF params.fixed.some THEN Min(Div(params.fixed.v, Hundred), One)
            ELSE LET recovery_pct == Add(Mul(params.a, cu_grade_pct), params.b)
                 IN  Min(Div(recovery_pct, Hundred), One)
    IN  Recovery(get(RECOVERY_PARAMS, area, DEFAULT_RECOVERY_PARAMS))

\* compute_payable_metal without the check of payability against 1.
payable_metal_unchecked(tonnage, grade, grade_unit, recovery, payability) ==
    IF Lt(tonnage, Zero) THEN [raised |-> "ValueError"]
    ELSE IF Lt(recovery, Zero) \/ Gt(recovery, One) THEN [raised |-> "ValueError"]
    ELSE IF Lt(payability, Zero) THEN [raised |-> "ValueError"]
    ELSE IF grade_unit = "%"
        THEN [raised |-> "",
              value |-> Mul(Mul(Mul(tonnage, Div(grade, Hundred)), recovery), payability)]
    ELSE IF grade_unit = "g/t"
        THEN [raised |-> "",
              value |-> Mul(Mul(Mul(tonnage, Div(grade, F(1000000, 0))), recovery),
                            payability)]
    ELSE [raised |-> "ValueError"]

\* ValueError is the engine's InvalidParameter.
compute_payable_metal(tonnage, grade, grade_unit, recovery, payability) ==
    IF Lt(tonnage, Zero) THEN [raised |-> "ValueError"]
    ELSE IF Lt(recovery, Zero) \/ Gt(recovery, One) THEN [raised |-> "ValueError"]
    ELSE IF Lt(payability, Zero) \/ Gt(payability, One) THEN [raised |-> "ValueError"]
    ELSE IF grade_unit = "%"
        THEN [raised |-> "",
              value |-> Mul(Mul(Mul(tonnage, Div(grade, Hundred)), recovery), payability)]
    ELSE IF grade_unit = "g/t"
        THEN [raised |-> "",
              value |-> Mul(Mul(Mul(tonnage, Div(grade, F(1000000, 0))), recovery),
                            payability)]
    ELSE [raised |-> "ValueError"]

compute_conc_ratio(cu_grade_pct, cu_recovery, cu_conc_grade_pct) ==
    PyDiv(Mul(Div(cu_grade_pct, Hundred), cu_recovery), Div(cu_conc_grade_pct, Hundred))

compute_conc_price_cu(cu_price_per_lb, cu_conc_grade_pct, payability, tc, rc, freight, penalties) ==
    LET Price(cu_grade_fraction) ==
            LET gross_revenue ==
                    Mul(Mul(Mul(cu_price_per_lb, cu_grade_fraction), payability),
                        LB_PER_TONNE)
                rc_total == Mul(Mul(rc, cu_grade_fraction), LB_PER_TONNE)
                total_deductions == Add(Add(Add(tc, rc_total), freight), penalties)
            IN  Sub(gross_revenue, total_deductions)
    IN  Price(Div(cu_conc_grade_pct, Hundred))

compute_conc_price_au(au_price_per_oz, au_grade_in_conc_gpt, payability, rc) ==
    LET Price(au_oz_per_tonne_conc) ==
            LET gross_revenue == Mul(Mul(au_price_per_oz, au_oz_per_tonne_conc), payability)
                rc_total == Mul(rc, au_oz_per_tonne_conc)
            IN  Sub(gross_revenue, rc_total)
    IN  Price(Mul(au_grade_in_conc_gpt, TROY_OZ_PER_GRAM))

compute_conc_price_ag(ag_price_per_oz, ag_grade_in_conc_gpt, payability, rc) ==
    LET Price(ag_oz_per_tonne_conc) ==
            LET gross_revenue == Mul(Mul(ag_price_per_oz, ag_oz_per_tonne_conc), payability)
                rc_total == Mul(rc, ag_oz_per_tonne_conc)
            IN  Sub(gross_revenue, rc_total)
    IN  Price(Mul(ag_grade_in_conc_gpt, TROY_OZ_PER_GRAM))

compute_ebitda(revenue, ore_tonnage, mine_cost, development_cost, development_meters, haul_cost, plant_cost, ga_cost) ==
    LET EBITDAResult(mine_cost_total, development_cost_total, haul_cost_total,
                     plant_cost_total, ga_cost_total, total_costs, ebitda) ==
            LET ebitda_per_tonne ==
                    IF Gt(ore_tonnage, Zero) THEN PyDiv(ebitda, ore_tonnage) ELSE Zero
                ebitda_margin ==
                    IF Gt(revenue, Zero) THEN Mul(PyDiv(ebitda, revenue), Hundred)
                    ELSE Zero
            IN  [revenue |-> Round(revenue, 2),
                 mine_cost_total |-> Round(mine_cost_total, 2),
                 development_cost_total |-> Round(development_cost_total, 2),
                 haul_cost_total |-> Round(haul_cost_total, 2),
                 plant_cost_total |-> Round(plant_cost_total, 2),
                 ga_cost_total |-> Round(ga_cost_total, 2),
                 total_costs |-> Round(total_costs, 2),
                 ebitda |-> Round(ebitda, 2),
                 ebitda_per_tonne |-> Round(ebitda_per_tonne, 2),
                 ebitda_margin |-> Round(ebitda_margin, 2)]
        Margin(mine_cost_total, development_cost_total, haul_cost_total,
               plant_cost_total, ga_cost_total, total_costs) ==
            EBITDAResult(mine_cost_total, development_cost_total, haul_cost_total,
                         plant_cost_total, ga_cost_total, total_costs,
                         Sub(revenue, total_costs))
        Costs(mine_cost_total, development_cost_total, haul_cost_total,
              plant_cost_total, ga_cost_total) ==
            Margin(mine_cost_total, development_cost_total, haul_cost_total,
                   plant_cost_total, ga_cost_total,
                   Add(Add(Add(Add(mine_cost_total, development_cost_total),
                               haul_cost_total), plant_cost_total), ga_cost_total))
    IN  Costs(Mul(mine_cost, ore_tonnage), Mul(development_cost, development_meters),
              Mul(haul_cost, ore_tonnage), Mul(plant_cost, ore_tonnage),
              Mul(ga_cost, ore_tonnage))

\* ------------------------------------------------------------------------
\* models.py: NSRInput
\* ------------------------------------------------------------------------

\* Field defaults of NSRInput; mine, area and the three grades are required.
NSRInputDefaults ==
    [ore_tonnage |-> F(1000, 0), mine_dilution |-> F(14, 0 - 2),
     ore_recovery |-> F(98, 0 - 2),
     cu_price |-> None, au_price |-> None, ag_price |-> None,
     cu_payability |-> None, cu_tc |-> None, cu_rc |-> None, cu_freight |-> None,
     cu_penalties |-> None, au_payability |-> None, au_rc |-> None,
     ag_payability |-> None, ag_rc |-> None, cu_conc_grade |-> None,
     mine_cost |-> None, development_cost |-> None, development_meters |-> None,
     haul_cost |-> None, plant_cost |-> None, ga_cost |-> None]

RequiredFields == {"mine", "area", "cu_grade", "au_grade", "ag_grade"}

OptNonNegative(opt) == ~opt.some \/ Ge(opt.v, Zero)

\* The Field(...) constraints: ge, gt, le.
FieldConstraints(d) ==
    /\ Ge(d.cu_grade, Zero) /\ Le(d.cu_grade, Hundred)
    /\ Ge(d.au_grade, Zero)
    /\ Ge(d.ag_grade, Zero)
    /\ Gt(d.ore_tonnage, Zero)
    /\ Ge(d.mine_dilution, Zero) /\ Le(d.mine_dilution, One)
    /\ Ge(d.ore_recovery, Zero) /\ Le(d.ore_recovery, One)
    /\ OptNonNegative(d.mine_cost)
    /\ OptNonNegative(d.development_cost)
    /\ OptNonNegative(d.development_meters)
    /\ OptNonNegative(d.haul_cost)
    /\ OptNonNegative(d.plant_cost)
    /\ OptNonNegative(d.ga_cost)

\* NSRInput(**data): the record built from the keyword arguments, or the
\* validation error.
NSRInput(data) ==
    IF ~(RequiredFields \subseteq DOMAIN data) THEN [raised |-> "ValidationError"]
    ELSE LET d == data @@ NSRInputDefaults
         IN  IF FieldConstraints(d) THEN [raised |-> "", value |-> d]
             ELSE [raised |-> "ValidationError"]

\* ------------------------------------------------------------------------
\* calculations.py: compute_nsr_complete
\* ------------------------------------------------------------------------

\* The function's local variables are gathered in a record s, one group of
\* assignments after the other.

\* "Get defaults for optional parameters"
OptionalParameters(inputs) ==
    [inputs |-> inputs,
     cu_price |-> PyOr(inputs.cu_price, DEFAULT_CU_PRICE_PER_LB),
     au_price |-> PyOr(inputs.au_price, DEFAULT_AU_PRICE_PER_OZ),
     ag_price |-> PyOr(inputs.ag_price, DEFAULT_AG_PRICE_PER_OZ),
     cu_payability |-> PyOr(inputs.cu_payability, DEFAULT_CU_PAYABILITY),
     cu_tc |-> PyOr(inputs.cu_tc, DEFAULT_CU_TC),
     cu_rc |-> PyOr(inputs.cu_rc, DEFAULT_CU_RC),
     cu_freight |-> PyOr(inputs.cu_freight, DEFAULT_CU_FREIGHT),
     cu_penalties |-> PyOr(inputs.cu_penalties, DEFAULT_CU_PENALTIES),
     au_payability |-> PyOr(inputs.au_payability, DEFAULT_AU_PAYABILITY),
     au_rc |-> PyOr(inputs.au_rc, DEFAULT_AU_RC),
     ag_payability |-> PyOr(inputs.ag_payability, DEFAULT_AG_PAYABILITY),
     ag_rc |-> PyOr(inputs.ag_rc, DEFAULT_AG_RC),
     cu_conc_grade |-> PyOr(inputs.cu_conc_grade, DEFAULT_CU_CONC_GRADE)]

\* Step 1: Cu recovery
Step1(s) ==
    [cu_recovery |-> compute_cu_recovery(s.inputs.cu_grade, s.inputs.area),
     au_recovery |-> DEFAULT_AU_RECOVERY,
     ag_recovery |-> DEFAULT_AG_RECOVERY] @@ s

\* Step 2: concentrate ratio
Step2(s) ==
    [conc_ratio |-> compute_conc_ratio(s.inputs.cu_grade, s.cu_recovery, s.cu_conc_grade)]
    @@ s

\* metal_in_conc without the test of conc_ratio.
metal_in_conc_unguarded(grade, recovery, conc_ratio) ==
    PyDiv(Mul(grade, recovery), conc_ratio)

\* (grade in ore * recovery) / conc_ratio if conc_ratio > 0 else 0
metal_in_conc(grade, recovery, conc_ratio) ==
    IF Gt(conc_ratio, Zero) THEN PyDiv(Mul(grade, recovery), conc_ratio) ELSE Zero

\* Step 3: grades in concentrate
Step3(s) ==
    [au_in_conc |-> metal_in_conc(s.inputs.au_grade, s.au_recovery, s.conc_ratio),
     ag_in_conc |-> metal_in_conc(s.inputs.ag_grade, s.ag_recovery, s.conc_ratio)] @@ s

\* A total that forgets silver.
sum_without_ag(cu, au, ag) == Add(cu, au)

\* cu + au + ag
sum_by_metal(cu, au, ag) == Add(Add(cu, au), ag)

\* Step 4: concentrate prices
Step4(s) ==
    LET Prices(conc_price_cu, conc_price_au, conc_price_ag) ==
            [conc_price_cu |-> conc_price_cu,
             conc_price_au |-> conc_price_au,
             conc_price_ag |-> conc_price_ag,
             conc_price_total |-> sum_by_metal(conc_price_cu, conc_price_au, conc_price_ag)]
    IN  Prices(compute_conc_price_cu(s.cu_price, s.cu_conc_grade, s.cu_payability, s.cu_tc,
                                     s.cu_rc, s.cu_freight, s.cu_penalties),
               compute_conc_price_au(s.au_price, s.au_in_conc, s.au_payability, s.au_rc),
               compute_conc_price_ag(s.ag_price, s.ag_in_conc, s.ag_payability, s.ag_rc))
        @@ s

\* Step 5: NSR per tonne of ore, by metal
Step5(s) ==
    LET Total(nsr_cu, nsr_au, nsr_ag, nsr_total) ==
            [nsr_cu |-> nsr_cu, nsr_au |-> nsr_au, nsr_ag |-> nsr_ag,
             nsr_total |-> nsr_total, nsr_per_tonne |-> nsr_total]
        ByMetal(nsr_cu, nsr_au, nsr_ag) ==
            Total(nsr_cu, nsr_au, nsr_ag, sum_by_metal(nsr_cu, nsr_au, nsr_ag))
    IN  ByMetal(Mul(s.conc_price_cu, s.conc_ratio), Mul(s.conc_price_au, s.conc_ratio),
                Mul(s.conc_price_ag, s.conc_ratio)) @@ s

\* gross_rev_au, gross_rev_ag
gross_rev_byproduct(price, in_conc, payability, conc_ratio) ==
    IF Gt(conc_ratio, Zero) THEN Mul(Mul(Mul(price, in_conc), TROY_OZ_PER_GRAM), payability)
    ELSE Zero

conc_ratio_100(cu_grade, cu_conc_grade) ==
    IF Gt(cu_conc_grade, Zero) THEN PyDiv(Div(cu_grade, Hundred), Div(cu_conc_grade, Hundred))
    ELSE Zero

\* Cascade: gross concentrate revenue per tonne of concentrate
CascadeGross(s) ==
    [gross_rev_cu |->
        Mul(Mul(Mul(s.cu_price, Div(s.cu_conc_grade, Hundred)), s.cu_payability),
            LB_PER_TONNE),
     gross_rev_au |->
        gross_rev_byproduct(s.au_price, s.au_in_conc, s.au_payability, s.conc_ratio),
     gross_rev_ag |->
        gross_rev_byproduct(s.ag_price, s.ag_in_conc, s.ag_payability, s.conc_ratio),
     conc_ratio_100 |-> conc_ratio_100(s.inputs.cu_grade, s.cu_conc_grade),
     mine_factor |-> Mul(Sub(One, s.inputs.mine_dilution), s.inputs.ore_recovery)] @@ s

recovery_loss(gross_rev_cu, cr100, cu_recovery) ==
    Mul(Mul(gross_rev_cu, cr100), Sub(One, cu_recovery))

\* Cascade: selling costs, recovery loss
CascadeSelling(s) ==
    [selling_costs_per_tonne |->
        Mul(Sub(Add(Add(s.gross_rev_cu, s.gross_rev_au), s.gross_rev_ag),
                s.conc_price_total),
            s.conc_ratio),
     recovery_loss |-> recovery_loss(s.gross_rev_cu, s.conc_ratio_100, s.cu_recovery)] @@ s

\* nsr_mineral_resources without the test of mine_factor.
nsr_mineral_resources_unguarded(nsr_mine, mine_factor) == PyDiv(nsr_mine, mine_factor)

nsr_mineral_resources(nsr_mine, mine_factor) ==
    IF Gt(mine_factor, Zero) THEN PyDiv(nsr_mine, mine_factor) ELSE nsr_mine

\* The dilution loss with its operands swapped.
dilution_loss_swapped(nsr_mr, nsr_mine) == Sub(nsr_mine, nsr_mr)

dilution_loss(nsr_mr, nsr_mine) == Sub(nsr_mr, nsr_mine)

\* Cascade: NSR Processing, NSR Mine, Mineral Resources
CascadeLevels(s) ==
    LET Resources(nsr_processing, nsr_mine, nsr_mr) ==
            [nsr_processing |-> nsr_processing,
             nsr_mine |-> nsr_mine,
             nsr_mineral_resources |-> nsr_mr,
             dilution_loss |-> dilution_loss(nsr_mr, nsr_mine)]
        Mine(nsr_processing, nsr_mine) ==
            Resources(nsr_processing, nsr_mine,
                      nsr_mineral_resources(nsr_mine, s.mine_factor))
        Processing(nsr_processing) ==
            Mine(nsr_processing, Add(nsr_processing, s.recovery_loss))
    IN  Processing(Add(s.nsr_total, s.selling_costs_per_tonne)) @@ s

\* "Calculate revenue for given tonnage"
Revenue(s) ==
    [revenue_total |-> Mul(s.conc_price_total, Mul(s.inputs.ore_tonnage, s.conc_ratio))]
    @@ s

\* has_costs by truthiness: a cost supplied as 0 does not count.
has_costs_truthy(inputs) ==
    \/ (inputs.mine_cost.some /\ inputs.mine_cost.v # Zero)
    \/ (inputs.development_cost.some /\ inputs.development_cost.v # Zero)
    \/ (inputs.haul_cost.some /\ inputs.haul_cost.v # Zero)
    \/ (inputs.plant_cost.some /\ inputs.plant_cost.v # Zero)
    \/ (inputs.ga_cost.some /\ inputs.ga_cost.v # Zero)

has_costs(inputs) ==
    \/ inputs.mine_cost.some
    \/ inputs.development_cost.some
    \/ inputs.haul_cost.some
    \/ inputs.plant_cost.some
    \/ inputs.ga_cost.some

\* "EBITDA calculation (when any cost input is provided)"
ebitda_result(inputs, revenue_total) ==
    IF has_costs(inputs)
    THEN Some(compute_ebitda(
            revenue_total, inputs.ore_tonnage,
            IfNotNone(inputs.mine_cost, DEFAULT_MINE_COST),
            IfNotNone(inputs.development_cost, DEFAULT_DEVELOPMENT_COST),
            IfNotNone(inputs.development_meters, DEFAULT_DEVELOPMENT_METERS),
            IfNotNone(inputs.haul_cost, DEFAULT_HAUL_COST),
            IfNotNone(inputs.plant_cost, DEFAULT_PLANT_COST),
            IfNotNone(inputs.ga_cost, DEFAULT_GA_COST)))
    ELSE None

inputs_used(inputs, s) ==
    [mine |-> inputs.mine, area |-> inputs.area, cu_grade |-> inputs.cu_grade,
     au_grade |-> inputs.au_grade, ag_grade |-> inputs.ag_grade,
     ore_tonnage |-> inputs.ore_tonnage, mine_dilution |-> inputs.mine_dilution,
     ore_recovery |-> inputs.ore_recovery,
     cu_price |-> s.cu_price, au_price |-> s.au_price, ag_price |-> s.ag_price,
     cu_payability |-> s.cu_payability, cu_tc |-> s.cu_tc, cu_rc |-> s.cu_rc,
     cu_freight |-> s.cu_freight, au_payability |-> s.au_payability, au_rc |-> s.au_rc,
     ag_payability |-> s.ag_payability, ag_rc |-> s.ag_rc,
     cu_conc_grade |-> s.cu_conc_grade,
     mine_cost |-> inputs.mine_cost, development_cost |-> inputs.development_cost,
     development_meters |-> inputs.development_meters,
     haul_cost |-> inputs.haul_cost, plant_cost |-> inputs.plant_cost,
     ga_cost |-> inputs.ga_cost]

\* The NSRResult returned, or the ZeroDivisionError of one of the divisions.
NSRResult(s) ==
    IF \/ IsExc(s.conc_ratio) \/ IsExc(s.au_in_conc) \/ IsExc(s.ag_in_conc)
       \/ IsExc(s.conc_ratio_100) \/ IsExc(s.nsr_mineral_resources)
    THEN [raised |-> "ZeroDivisionError"]
    ELSE [raised |-> "",
          conc_price_cu |-> Round(s.conc_price_cu, 2),
          conc_price_au |-> Round(s.conc_price_au, 2),
          conc_price_ag |-> Round(s.conc_price_ag, 2),
          conc_price_total |-> Round(s.conc_price_total, 2),
          nsr_cu |-> Round(s.nsr_cu, 2),
          nsr_au |-> Round(s.nsr_au, 2),
          nsr_ag |-> Round(s.nsr_ag, 2),
          nsr_mineral_resources |-> Round(s.nsr_mineral_resources, 2),
          nsr_processing |-> Round(s.nsr_processing, 2),
          nsr_mine |-> Round(s.nsr_mine, 2),
          nsr_per_tonne |-> Round(s.nsr_per_tonne, 2),
          dilution_loss |-> Round(s.dilution_loss, 2),
          recovery_loss |-> Round(s.recovery_loss, 2),
          conc_ratio |-> Round(s.conc_ratio, 6),
          cu_recovery |-> Round(s.cu_recovery, 4),
          au_recovery |-> Round(s.au_recovery, 4),
          ag_recovery |-> Round(s.ag_recovery, 4),
          revenue_total |-> Round(s.revenue_total, 2),
          ebitda |-> ebitda_result(s.inputs, s.revenue_total),
          currency |-> "USD",
          ore_tonnage |-> s.inputs.ore_tonnage,
          formula_applied |-> "See NSR_REQUIREMENTS.md",
          inputs_used |-> inputs_used(s.inputs, s)]

compute_nsr_complete(inputs) ==
    NSRResult(Revenue(CascadeLevels(CascadeSelling(CascadeGross(
        Step5(Step4(Step3(Step2(Step1(OptionalParameters(inputs)))))))))))

\* ------------------------------------------------------------------------
\* goal_seek.py
\* ------------------------------------------------------------------------

Variable(direction, lower_bound, upper_bound, unit) ==
    [direction |-> direction, lower_bound |-> lower_bound, upper_bound |-> upper_bound,
     unit |-> unit]

GOAL_SEEK_VARIABLES ==
    ("cu_price" :> Variable("revenue", F(1, 0 - 2), F(50, 0), "$/lb")) @@
    ("au_price" :> Variable("revenue", F(1, 0), F(50000, 0), "$/oz")) @@
    ("ag_price" :> Variable("revenue", F(1, 0 - 2), F(5000, 0), "$/oz")) @@
    ("cu_grade" :> Variable("revenue", F(1, 0 - 3), F(20, 0), "%")) @@
    ("au_grade" :> Variable("revenue", F(1, 0 - 3), F(100, 0), "g/t")) @@
    ("ag_grade" :> Variable("revenue", F(1, 0 - 3), F(500, 0), "g/t")) @@
    ("cu_tc" :> Variable("cost", Zero, F(1000, 0), "$/dmt")) @@
    ("cu_rc" :> Variable("cost", Zero, F(50, 0), "$/lb")) @@
    ("cu_freight" :> Variable("cost", Zero, F(500, 0), "$/dmt")) @@
    ("cu_penalties" :> Variable("cost", Zero, F(500, 0), "$/dmt")) @@
    ("mine_dilution" :> Variable("cost", Zero, F(99, 0 - 2), "decimal"))

\* The fields of NSRInput declared Optional[float].
OptionalFields == DOMAIN NSRInputDefaults \ {"ore_tonnage", "mine_dilution", "ore_recovery"}

\* getattr(inputs, variable, None)
getattr(inputs, variable) ==
    IF variable \notin DOMAIN inputs THEN None
    ELSE IF variable \in OptionalFields THEN inputs[variable]
    ELSE Some(inputs[variable])

\* _get_variable_value whose defaults table lacks cu_penalties.
get_variable_value_no_penalties(inputs, variable) ==
    IF getattr(inputs, variable).some
    THEN [raised |-> "", value |-> getattr(inputs, variable).v]
    ELSE IF variable = "cu_price" THEN [raised |-> "", value |-> DEFAULT_CU_PRICE_PER_LB]
    ELSE IF variable = "au_price" THEN [raised |-> "", value |-> DEFAULT_AU_PRICE_PER_OZ]
    ELSE IF variable = "ag_price" THEN [raised |-> "", value |-> DEFAULT_AG_PRICE_PER_OZ]
    ELSE IF variable = "cu_tc" THEN [raised |-> "", value |-> DEFAULT_CU_TC]
    ELSE IF variable = "cu_rc" THEN [raised |-> "", value |-> DEFAULT_CU_RC]
    ELSE IF variable = "cu_freight" THEN [raised |-> "", value |-> DEFAULT_CU_FREIGHT]
    ELSE [raised |-> "GoalSeekError"]

_get_variable_value(inputs, variable) ==
    LET val == getattr(inputs, variable)
        defaults ==
            ("cu_price" :> DEFAULT_CU_PRICE_PER_LB) @@
            ("au_price" :> DEFAULT_AU_PRICE_PER_OZ) @@
            ("ag_price" :> DEFAULT_AG_PRICE_PER_OZ) @@
            ("cu_tc" :> DEFAULT_CU_TC) @@
            ("cu_rc" :> DEFAULT_CU_RC) @@
            ("cu_freight" :> DEFAULT_CU_FREIGHT) @@
            ("cu_penalties" :> DEFAULT_CU_PENALTIES)
    IN  IF val.some THEN [raised |-> "", value |-> val.v]
        ELSE IF variable \in DOMAIN defaults
            THEN [raised |-> "", value |-> defaults[variable]]
        ELSE [raised |-> "GoalSeekError"]

\* _set_variable_value building the copy from the required fields only: the
\* other fields of the copy fall back to their defaults.
set_variable_value_required_only(inputs, variable, value) ==
    NSRInput((variable :> (IF variable \in OptionalFields THEN Some(value) ELSE value))
             @@ [f \in RequiredFields |-> inputs[f]])

\* A copy of the input with one field changed, validated again by NSRInput.
_set_variable_value(inputs, variable, value) ==
    NSRInput((variable :> (IF variable \in OptionalFields THEN Some(value) ELSE value))
             @@ inputs)

\* "return result.nsr_per_tonne"
_compute_nsr_returned(result) ==
    IF result.raised # "" THEN [raised |-> result.raised]
    ELSE [raised |-> "", value |-> result.nsr_per_tonne]

\* "result = compute_nsr_complete(modified)"
_compute_nsr_modified(modified) ==
    IF modified.raised # "" THEN [raised |-> modified.raised]
    ELSE _compute_nsr_returned(compute_nsr_complete(modified.value))

_compute_nsr_for_value(base_input, variable, value) ==
    _compute_nsr_modified(_set_variable_value(base_input, variable, value))

\* delta_pct relative to the threshold and not to the current value.
delta_pct_of_threshold(threshold, current_value) ==
    IF current_value # Zero
    THEN Mul(PyDiv(Sub(threshold, current_value), threshold), Hundred)
    ELSE Zero

\* delta_pct of the bound-hit and bisection returns
delta_pct(threshold, current_value) ==
    IF current_value # Zero
    THEN Mul(PyDiv(Sub(threshold, current_value), current_value), Hundred)
    ELSE Zero

\* A result not there yet.
Pending == [raised |-> "pending"]

GoalSeekResult(target_variable, target_variable_unit, target_nsr, threshold_value, current_value, current_nsr, delta_percent, is_currently_viable, converged, iterations, tolerance_achieved, bound_hit) ==
    [raised |-> "",
     target_variable |-> target_variable,
     target_variable_unit |-> target_variable_unit,
     target_nsr |-> target_nsr,
     threshold_value |-> threshold_value,
     current_value |-> current_value,
     current_nsr |-> current_nsr,
     delta_percent |-> delta_percent,
     is_currently_viable |-> is_currently_viable,
     converged |-> converged,
     iterations |-> iterations,
     tolerance_achieved |-> tolerance_achieved,
     bound_hit |-> bound_hit]

\* The locals of goal_seek; a local not yet assigned holds 0.
Unbound ==
    [current_value |-> Zero, current_nsr |-> Zero, is_currently_viable |-> FALSE,
     nsr_at_lower |-> Zero, nsr_at_upper |-> Zero, f_lower |-> Zero, f_upper |-> Zero,
     a |-> Zero, b |-> Zero, fa |-> Zero, i |-> 0, iterations |-> 0,
     mid |-> Zero, f_mid |-> Zero]

\* Where a part of goal_seek leaves the call: the next part (pc), the locals,
\* the pipeline calls made so far and, once it returned or raised, the result.
Outcome(pc, loc, calls, ret) == [pc |-> pc, loc |-> loc, calls |-> calls, ret |-> ret]

\* An early exit that reports current_value as it is, without round(..., 6).
EarlyExitUnrounded(args, unit, current_value, current_nsr) ==
    [raised |-> "",
     target_variable |-> args.target_variable,
     target_variable_unit |-> unit,
     target_nsr |-> args.target_nsr,
     threshold_value |-> current_value,
     current_value |-> current_value,
     current_nsr |-> Round(current_nsr, 2),
     delta_percent |-> Zero,
     is_currently_viable |-> Ge(current_nsr, args.target_nsr),
     converged |-> TRUE,
     iterations |-> 0,
     tolerance_achieved |-> Abs(Sub(current_nsr, args.target_nsr)),
     bound_hit |-> ""]

\* "Check if target is already met exactly": the result returned
EarlyExitResult(args, unit, current_value, current_nsr) ==
    GoalSeekResult(args.target_variable, unit, args.target_nsr,
                   Round(current_value, 6), current_value, Round(current_nsr, 2), Zero,
                   Ge(current_nsr, args.target_nsr), TRUE, 0,
                   Abs(Sub(current_nsr, args.target_nsr)), "")

\* "if abs(current_nsr - target_nsr) <= tolerance"
goal_seek_early_exit(args, loc) ==
    IF Le(Abs(Sub(loc.current_nsr, args.target_nsr)), args.tolerance)
    THEN Outcome("returned", loc, 1,
                 EarlyExitResult(args, GOAL_SEEK_VARIABLES[args.target_variable].unit,
                                 loc.current_value, loc.current_nsr))
    ELSE Outcome("bounds", loc, 1, Pending)

\* "current_nsr = _compute_nsr_for_value(base_input, target_variable, current_value)"
goal_seek_current_nsr(args, current_value, nsr) ==
    IF nsr.raised # ""
    THEN Outcome("raised", [Unbound EXCEPT !.current_value = current_value], 1,
                 [raised |-> nsr.raised])
    ELSE goal_seek_early_exit(args,
                              [Unbound EXCEPT
                                  !.current_value = current_value,
                                  !.current_nsr = nsr.value,
                                  !.is_currently_viable = Ge(nsr.value, args.target_nsr)])

\* "current_value = _get_variable_value(base_input, target_variable)"
goal_seek_current_value(args, current) ==
    IF current.raised # ""
    THEN Outcome("raised", Unbound, 0, [raised |-> current.raised])
    ELSE goal_seek_current_nsr(args, current.value,
                               _compute_nsr_for_value(args.base_input,
                                                      args.target_variable,
                                                      current.value))

\* goal_seek checking the registry only after the first pipeline evaluation.
goal_seek_checked_late(args) ==
    IF args.target_variable \notin DOMAIN GOAL_SEEK_VARIABLES
    THEN Outcome("raised", Unbound, 1, [raised |-> "GoalSeekError"])
    ELSE goal_seek_current_value(args,
                                 _get_variable_value(args.base_input, args.target_variable))

\* The registry check, the current value and NSR, the early exit.
goal_seek_current(args) ==
    IF args.target_variable \notin DOMAIN GOAL_SEEK_VARIABLES
    THEN Outcome("raised", Unbound, 0, [raised |-> "GoalSeekError"])
    ELSE goal_seek_current_value(args,
                                 _get_variable_value(args.base_input, args.target_variable))

\* "No sign change -> no solution in bounds": the result returned
BoundHitResult(args, unit, loc, threshold, nsr_at_threshold, hit) ==
    GoalSeekResult(args.target_variable, unit, args.target_nsr,
                   Round(threshold, 6), loc.current_value, Round(loc.current_nsr, 2),
                   Round(delta_pct(threshold, loc.current_value), 2),
                   loc.is_currently_viable, FALSE, 0,
                   Abs(Sub(nsr_at_threshold, args.target_nsr)), hit)

\* goal_seek_signs naming the lower bound when both bounds are equally far.
goal_seek_signs_ties_lower(args, registry, loc, calls, evaluated) ==
    IF Gt(Mul(evaluated.f_lower, evaluated.f_upper), Zero)
    THEN IF Le(Abs(evaluated.f_lower), Abs(evaluated.f_upper))
         THEN Outcome("returned", evaluated, calls + 2,
                      BoundHitResult(args, registry.unit, loc, registry.lower_bound,
                                     evaluated.nsr_at_lower, "lower"))
         ELSE Outcome("returned", evaluated, calls + 2,
                      BoundHitResult(args, registry.unit, loc, registry.upper_bound,
                                     evaluated.nsr_at_upper, "upper"))
    ELSE Outcome(IF args.max_iterations > 0 THEN "loop" ELSE "final",
                 [evaluated EXCEPT
                    !.a = registry.lower_bound,
                    !.b = registry.upper_bound,
                    !.fa = evaluated.f_lower,
                    !.iterations = 0,
                    !.i = 0],
                 calls + 2, Pending)

\* The sign check entering the loop body before max_iterations is tested.
goal_seek_signs_do_while(args, registry, loc, calls, evaluated) ==
    IF Gt(Mul(evaluated.f_lower, evaluated.f_upper), Zero)
    THEN IF Lt(Abs(evaluated.f_lower), Abs(evaluated.f_upper))
         THEN Outcome("returned", evaluated, calls + 2,
                      BoundHitResult(args, registry.unit, loc, registry.lower_bound,
                                     evaluated.nsr_at_lower, "lower"))
         ELSE Outcome("returned", evaluated, calls + 2,
                      BoundHitResult(args, registry.unit, loc, registry.upper_bound,
                                     evaluated.nsr_at_upper, "upper"))
    ELSE Outcome("loop",
                 [evaluated EXCEPT
                    !.a = registry.lower_bound,
                    !.b = registry.upper_bound,
                    !.fa = evaluated.f_lower,
                    !.iterations = 0,
                    !.i = 0],
                 calls + 2, Pending)

\* "if f_lower * f_upper > 0", and "a, b = lower_bound, upper_bound; fa = f_lower"
goal_seek_signs(args, registry, loc, calls, evaluated) ==
    IF Gt(Mul(evaluated.f_lower, evaluated.f_upper), Zero)
    THEN IF Lt(Abs(evaluated.f_lower), Abs(evaluated.f_upper))
         THEN Outcome("returned", evaluated, calls + 2,
                      BoundHitResult(args, registry.unit, loc, registry.lower_bound,
                                     evaluated.nsr_at_lower, "lower"))
         ELSE Outcome("returned", evaluated, calls + 2,
                      BoundHitResult(args, registry.unit, loc, registry.upper_bound,
                                     evaluated.nsr_at_upper, "upper"))
    ELSE Outcome(IF args.max_iterations > 0 THEN "loop" ELSE "final",
                 [evaluated EXCEPT
                    !.a = registry.lower_bound,
                    !.b = registry.upper_bound,
                    !.fa = evaluated.f_lower,
                    !.iterations = 0,
                    !.i = 0],
                 calls + 2, Pending)

\* "nsr_at_upper = _compute_nsr_for_value(base_input, target_variable, upper_bound)"
goal_seek_upper(args, registry, loc, calls, lower, upper) ==
    IF upper.raised # ""
    THEN Outcome("raised", loc, calls + 2, [raised |-> upper.raised])
    ELSE goal_seek_signs(args, registry, loc, calls,
                         [loc EXCEPT
                            !.nsr_at_lower = lower.value,
                            !.nsr_at_upper = upper.value,
                            !.f_lower = Sub(lower.value, args.target_nsr),
                            !.f_upper = Sub(upper.value, args.target_nsr)])

\* "nsr_at_lower = _compute_nsr_for_value(base_input, target_variable, lower_bound)"
goal_seek_lower(args, registry, loc, calls, lower) ==
    IF lower.raised # ""
    THEN Outcome("raised", loc, calls + 1, [raised |-> lower.raised])
    ELSE goal_seek_upper(args, registry, loc, calls, lower,
                         _compute_nsr_for_value(args.base_input, args.target_variable,
                                                registry.upper_bound))

\* "Evaluate NSR at bounds", the sign check, and the start of the bisection.
goal_seek_bounds(args, loc, calls) ==
    goal_seek_lower(args, GOAL_SEEK_VARIABLES[args.target_variable], loc, calls,
                    _compute_nsr_for_value(
                        args.base_input, args.target_variable,
                        GOAL_SEEK_VARIABLES[args.target_variable].lower_bound))

\* The loop body without "if abs(f_mid) <= tolerance: break".
goal_seek_tested_no_break(args, loc, calls, tested) ==
    Outcome(IF loc.i + 1 < args.max_iterations THEN "loop" ELSE "final",
            IF Lt(Mul(loc.fa, tested.f_mid), Zero)
            THEN [tested EXCEPT !.b = tested.mid, !.i = loc.i + 1]
            ELSE [tested EXCEPT !.a = tested.mid, !.fa = tested.f_mid, !.i = loc.i + 1],
            calls + 1, Pending)

\* "if abs(f_mid) <= tolerance: break", else
\* "if fa * f_mid < 0: b = mid / else: a = mid; fa = f_mid"
goal_seek_tested(args, loc, calls, tested) ==
    IF Le(Abs(tested.f_mid), args.tolerance)
    THEN Outcome("final", tested, calls + 1, Pending)
    ELSE Outcome(IF loc.i + 1 < args.max_iterations THEN "loop" ELSE "final",
                 IF Lt(Mul(loc.fa, tested.f_mid), Zero)
                 THEN [tested EXCEPT !.b = tested.mid, !.i = loc.i + 1]
                 ELSE [tested EXCEPT !.a = tested.mid, !.fa = tested.f_mid,
                                     !.i = loc.i + 1],
                 calls + 1, Pending)

\* "f_mid = _compute_nsr_for_value(base_input, target_variable, mid) - target_nsr"
goal_seek_mid(args, loc, calls, mid, nsr_mid) ==
    IF nsr_mid.raised # ""
    THEN Outcome("raised", [loc EXCEPT !.iterations = loc.i + 1, !.mid = mid],
                 calls + 1, [raised |-> nsr_mid.raised])
    ELSE goal_seek_tested(args, loc, calls,
                          [loc EXCEPT !.iterations = loc.i + 1, !.mid = mid,
                                      !.f_mid = Sub(nsr_mid.value, args.target_nsr)])

\* One iteration of "for i in range(max_iterations)", i being loc.i:
\* "mid = (a + b) / 2.0" and what follows.
goal_seek_bisect(args, loc, calls) ==
    goal_seek_mid(args, loc, calls, Div(Add(loc.a, loc.b), F(2, 0)),
                  _compute_nsr_for_value(args.base_input, args.target_variable,
                                         Div(Add(loc.a, loc.b), F(2, 0))))

\* BisectionResult with converged telling whether the tolerance was reached.
BisectionResultWithinTolerance(args, unit, loc, threshold, nsr_at_threshold) ==
    GoalSeekResult(args.target_variable, unit, args.target_nsr,
                   Round(threshold, 6), loc.current_value, Round(loc.current_nsr, 2),
                   Round(delta_pct(threshold, loc.current_value), 2),
                   loc.is_currently_viable,
                   Le(Abs(Sub(nsr_at_threshold, args.target_nsr)), args.tolerance),
                   loc.iterations,
                   Round(Abs(Sub(nsr_at_threshold, args.target_nsr)), 4), "")

\* The result returned after the loop
BisectionResult(args, unit, loc, threshold, nsr_at_threshold) ==
    GoalSeekResult(args.target_variable, unit, args.target_nsr,
                   Round(threshold, 6), loc.current_value, Round(loc.current_nsr, 2),
                   Round(delta_pct(threshold, loc.current_value), 2),
                   loc.is_currently_viable, TRUE, loc.iterations,
                   Round(Abs(Sub(nsr_at_threshold, args.target_nsr)), 4), "")

\* "nsr_at_threshold = _compute_nsr_for_value(base_input, target_variable, threshold)"
goal_seek_threshold_nsr(args, loc, calls, threshold, nsr_at_threshold) ==
    IF nsr_at_threshold.raised # ""
    THEN Outcome("raised", loc, calls + 1, [raised |-> nsr_at_threshold.raised])
    ELSE Outcome("returned", loc, calls + 1,
                 BisectionResult(args, GOAL_SEEK_VARIABLES[args.target_variable].unit,
                                 loc, threshold, nsr_at_threshold.value))

\* After the loop: "threshold = (a + b) / 2.0" and its NSR.
goal_seek_final(args, loc, calls) ==
    goal_seek_threshold_nsr(args, loc, calls, Div(Add(loc.a, loc.b), F(2, 0)),
                            _compute_nsr_for_value(args.base_input, args.target_variable,
                                                   Div(Add(loc.a, loc.b), F(2, 0))))

\* goal_seek from an outcome on: the remaining parts, to the return or raise.
RECURSIVE goal_seek_run(_, _)
goal_seek_run(args, outcome) ==
    IF outcome.pc = "bounds"
    THEN goal_seek_run(args, goal_seek_bounds(args, outcome.loc, outcome.calls))
    ELSE IF outcome.pc = "loop"
    THEN goal_seek_run(args, goal_seek_bisect(args, outcome.loc, outcome.calls))
    ELSE IF outcome.pc = "final"
    THEN goal_seek_run(args, goal_seek_final(args, outcome.loc, outcome.calls))
    ELSE outcome.ret

\* goal_seek(base_input, target_variable, target_nsr, tolerance, max_iterations)
\* as one call running alone: the GoalSeekResult, or the error raised.
goal_seek(args) == goal_seek_run(args, goal_seek_current(args))

\* ------------------------------------------------------------------------
\* State: one call of each entry point
\* ------------------------------------------------------------------------

VARIABLES
    nsr_pc, nsr_in, nsr_out,        \* compute_nsr_complete(nsr_in)
    pm_pc, pm_in, pm_out,           \* one call of a pure sub-function on pm_in
    tr_pc, tr_in, tr_out,           \* _compute_nsr_for_value at two values of a variable
    gs_pc, gs_args, gs_loc, gs_calls, gs_ret,   \* goal_seek(gs_args...)
    alert,                          \* check_alerts_job on one scenario
    _registry                       \* a PriceProviderRegistry

nsr_vars == <<nsr_pc, nsr_in, nsr_out>>

pm_vars == <<pm_pc, pm_in, pm_out>>

tr_vars == <<tr_pc, tr_in, tr_out>>

gs_vars == <<gs_pc, gs_args, gs_loc, gs_calls, gs_ret>>

vars == <<nsr_vars, pm_vars, tr_vars, gs_vars, alert, _registry>>

NsrIdle == nsr_pc = "idle" /\ nsr_in = Pending /\ nsr_out = Pending

PmIdle == pm_pc = "idle" /\ pm_in = Pending /\ pm_out = Pending

TrIdle == tr_pc = "idle" /\ tr_in = Pending /\ tr_out = Pending

GsIdle ==
    /\ gs_pc = "idle" /\ gs_args = Pending /\ gs_loc = Pending
    /\ gs_calls = 0 /\ gs_ret = Pending

\* No scenario is checked and no registry is in use.
ServicesIdle == alert = Pending /\ _registry = Pending

\* ------------------------------------------------------------------------
\* Inputs
\* ------------------------------------------------------------------------

\* The golden scenario of the unit tests.
Golden ==
    NSRInput([mine |-> "Vermelhos UG", area |-> "Vermelhos Sul", cu_grade |-> F(14, 0 - 1),
              au_grade |-> F(23, 0 - 2), ag_grade |-> F(233, 0 - 2),
              ore_tonnage |-> F(20000, 0)]).value

\* Required fields and mine factors, the optional fields left to their defaults.
GridInputs ==
    {[Golden EXCEPT !.area = ar, !.cu_grade = cg, !.au_grade = ag,
                    !.mine_dilution = md, !.ore_recovery = rc] :
        ar \in {"Vermelhos Sul", "Deepening Above - 965", "P1P2W", "Nonexistent Area"},
        cg \in {Zero, F(14, 0 - 1), F(10, 0)},
        ag \in {Zero, F(23, 0 - 2)},
        md \in {F(14, 0 - 2), One},
        rc \in {F(98, 0 - 2), Zero}}

\* A supplied value for each optional field, other than 0 and its default.
SuppliedValue ==
    [cu_price |-> F(415, 0 - 2), au_price |-> F(2400, 0), ag_price |-> F(29, 0),
     cu_payability |-> F(95, 0 - 2), cu_tc |-> F(20, 0), cu_rc |-> F(1, 0),
     cu_freight |-> F(50, 0), cu_penalties |-> F(5, 0), au_payability |-> F(95, 0 - 2),
     au_rc |-> F(5, 0), ag_payability |-> F(85, 0 - 2), ag_rc |-> F(5, 0 - 1),
     cu_conc_grade |-> F(28, 0), mine_cost |-> F(30, 0), development_cost |-> F(2000, 0),
     development_meters |-> F(10, 0), haul_cost |-> F(3, 0), plant_cost |-> F(8, 0),
     ga_cost |-> F(6, 0)]

\* The golden input with one optional field supplied: as 0, or as a value.
OneFieldInputs ==
    UNION {{[Golden EXCEPT ![f] = Some(Zero)],
            [Golden EXCEPT ![f] = Some(SuppliedValue[f])]} : f \in OptionalFields}
    \cup {[Golden EXCEPT ![f] = Some(SuppliedValue[f]), !.cu_grade = Zero] :
            f \in {"au_price", "ag_price", "mine_cost"}}

\* Prices at which the three concentrate prices end on half a cent
\* (614.225, 197.525 and 19.685 at seven digits).
RoundingTies ==
    [Golden EXCEPT !.cu_price = Some(F(3000065, 0 - 6)),
                   !.au_price = Some(F(2000251, 0 - 3)),
                   !.ag_price = Some(F(2002264, 0 - 5))]

NSRInputs ==
    GridInputs \cup OneFieldInputs
    \* a concentrate grade so small that cu_conc_grade / 100.0 underflows to 0.0
    \cup {[Golden EXCEPT !.cu_conc_grade = Some(F(1, 0 - 323))]}
    \cup {RoundingTies}

\* A copper price below the charges: a tonne of concentrate sells at a loss.
LowCopperPrice == [Golden EXCEPT !.cu_price = Some(F(5, 0 - 1))]

\* A copper price with seven decimals.
FineCopperPrice == [Golden EXCEPT !.cu_price = Some(F(1234567, 0 - 7))]

GoalSeekBases == {Golden, LowCopperPrice, FineCopperPrice}

\* The current NSR of the base, break-even, a target above the golden NSR,
\* the golden NSR at cu_tc = 20, and a target out of reach.
GoalSeekTargets(base) ==
    {compute_nsr_complete(base).nsr_per_tonne, Zero, F(200, 0), F(14613, 0 - 2),
     F(1000000, 0)}

DEFAULT_TOLERANCE == F(1, 0 - 2)

DEFAULT_MAX_ITERATIONS == 50

GoalSeekArgs ==
    UNION {[base_input : {base},
            \* the registry, a field outside it, and a name that is no field
            target_variable : DOMAIN GOAL_SEEK_VARIABLES \cup {"ore_recovery", "cu_cost"},
            target_nsr : GoalSeekTargets(base),
            tolerance : {DEFAULT_TOLERANCE, One},
            max_iterations : {0, 1, DEFAULT_MAX_ITERATIONS}] : base \in GoalSeekBases}
    \* a bisection that ends below 1 $/lb at a midpoint of seven decimals
    \cup {[base_input |-> FineCopperPrice, target_variable |-> "cu_price",
           target_nsr |-> F(0 - 15, 0), tolerance |-> DEFAULT_TOLERANCE,
           max_iterations |-> DEFAULT_MAX_ITERATIONS]}
    \* the NSR of the golden input at the lower bound of cu_price as target
    \cup {[base_input |-> Golden, target_variable |-> "cu_price",
           target_nsr |-> F(0 - 3525, 0 - 2), tolerance |-> DEFAULT_TOLERANCE,
           max_iterations |-> DEFAULT_MAX_ITERATIONS]}

\* Values of a variable's domain: the bounds and two values between them.
SamplePoints(variable) ==
    LET Between(lower_bound, upper_bound) ==
            {lower_bound, Div(Add(lower_bound, upper_bound), F(50, 0)),
             Div(Add(lower_bound, upper_bound), F(2, 0)), upper_bound}
    IN  Between(GOAL_SEEK_VARIABLES[variable].lower_bound,
                GOAL_SEEK_VARIABLES[variable].upper_bound)

\* A base, a registry variable and two values lo < hi of its domain.
TrialInputs ==
    UNION {{[base_input |-> base, variable |-> variable, lo |-> lo, hi |-> hi] :
                base \in GoalSeekBases,
                lo \in SamplePoints(variable),
                hi \in SamplePoints(variable)} :
           variable \in DOMAIN GOAL_SEEK_VARIABLES}

PayableMetalInputs ==
    [tonnage : {F(0 - 1, 0), Zero, F(1000, 0)},
     grade : {Zero, F(14, 0 - 1), F(23, 0 - 2)},
     grade_unit : {"%", "g/t", "invalid", "ppm"},
     recovery : {F(0 - 1, 0 - 1), Zero, F(92, 0 - 2), One, F(15, 0 - 1)},
     payability : {F(0 - 1, 0 - 1), Zero, F(965, 0 - 3), One, F(11, 0 - 1)}]

\* ------------------------------------------------------------------------
\* compute_nsr_complete and compute_payable_metal as calls
\* ------------------------------------------------------------------------

\* compute_nsr_complete reading its input from a place shared with goal_seek:
\* it computes on the base input of the goal_seek under way.
ComputeNsrSharedInput ==
    /\ nsr_pc = "called"
    /\ nsr_out' = compute_nsr_complete(IF gs_pc = "idle" THEN nsr_in ELSE gs_args.base_input)
    /\ nsr_pc' = IF nsr_out'.raised = "" THEN "returned" ELSE "raised"
    /\ UNCHANGED <<nsr_in, pm_vars, tr_vars, gs_vars, alert, _registry>>

ComputeNsr ==
    /\ nsr_pc = "called"
    /\ nsr_out' = compute_nsr_complete(nsr_in)
    /\ nsr_pc' = IF nsr_out'.raised = "" THEN "returned" ELSE "raised"
    /\ UNCHANGED <<nsr_in, pm_vars, tr_vars, gs_vars, alert, _registry>>

InitNsr ==
    /\ nsr_pc = "called" /\ nsr_in \in NSRInputs /\ nsr_out = Pending
    /\ PmIdle /\ TrIdle /\ GsIdle /\ ServicesIdle

SpecNsr == InitNsr /\ [][ComputeNsr]_vars

ComputePayableMetal ==
    /\ pm_pc = "called"
    /\ pm_out' = compute_payable_metal(pm_in.tonnage, pm_in.grade, pm_in.grade_unit,
                                       pm_in.recovery, pm_in.payability)
    /\ pm_pc' = IF pm_out'.raised = "" THEN "returned" ELSE "raised"
    /\ UNCHANGED <<pm_in, nsr_vars, tr_vars, gs_vars, alert, _registry>>

InitPayableMetal ==
    /\ pm_pc = "called" /\ pm_in \in PayableMetalInputs /\ pm_out = Pending
    /\ NsrIdle /\ TrIdle /\ GsIdle /\ ServicesIdle

SpecPayableMetal == InitPayableMetal /\ [][ComputePayableMetal]_vars

\* ------------------------------------------------------------------------
\* compute_cu_recovery and compute_conc_ratio as calls
\* ------------------------------------------------------------------------

ComputeCuRecovery ==
    /\ pm_pc = "called" /\ pm_in.fn = "compute_cu_recovery"
    /\ pm_out' = [raised |-> "", value |-> compute_cu_recovery(pm_in.cu_grade_pct, pm_in.area)]
    /\ pm_pc' = "returned"
    /\ UNCHANGED <<pm_in, nsr_vars, tr_vars, gs_vars, alert, _registry>>

ComputeConcRatio ==
    /\ pm_pc = "called" /\ pm_in.fn = "compute_conc_ratio"
    /\ pm_out' = LET ratio == compute_conc_ratio(pm_in.cu_grade_pct, pm_in.cu_recovery,
                                                 pm_in.cu_conc_grade_pct)
                 IN  IF IsExc(ratio) THEN [raised |-> "ZeroDivisionError"]
                     ELSE [raised |-> "", value |-> ratio]
    /\ pm_pc' = IF pm_out'.raised = "" THEN "returned" ELSE "raised"
    /\ UNCHANGED <<pm_in, nsr_vars, tr_vars, gs_vars, alert, _registry>>

\* NSRInput(**data), one construction.
ConstructNSRInput ==
    /\ pm_pc = "called" /\ pm_in.fn = "NSRInput"
    /\ pm_out' = NSRInput(pm_in.data)
    /\ pm_pc' = IF pm_out'.raised = "" THEN "returned" ELSE "raised"
    /\ UNCHANGED <<pm_in, nsr_vars, tr_vars, gs_vars, alert, _registry>>

\* The areas of the table, two names that are not in it (one differing in
\* case only) and grades from 0 to 100; grades, recoveries and concentrate
\* grades, 0 among them; the golden keyword arguments with one grade,
\* fraction, payability or concentrate grade inside, at the ends of and
\* outside its documented range.
InitSubFunctions ==
    /\ pm_pc = "called"
    /\ pm_in \in [fn : {"compute_cu_recovery"},
                  cu_grade_pct : {Zero, F(1, 0 - 1), F(14, 0 - 1), F(2, 0), F(5, 0), F(10, 0),
                                  Hundred},
                  area : DOMAIN RECOVERY_PARAMS \cup {"Nonexistent Area", "vermelhos sul"}]
               \cup
               [fn : {"compute_conc_ratio"},
                cu_grade_pct : {Zero, F(14, 0 - 1), F(10, 0)},
                cu_recovery : {Zero, F(9654, 0 - 4), One},
                cu_conc_grade_pct : {Zero, F(1, 0 - 323), F(28, 0), F(335, 0 - 1)}]
               \cup
               [fn : {"NSRInput"},
                data : {[Golden EXCEPT ![f] = v] :
                            f \in {"cu_grade", "au_grade", "ag_grade", "mine_dilution",
                                   "ore_recovery"},
                            v \in {F(0 - 1, 0), Zero, F(5, 0 - 1), One, F(15, 0 - 1),
                                   Hundred, F(101, 0)}}
                       \cup
                       {[Golden EXCEPT ![f] = v] :
                            f \in {"cu_payability", "au_payability", "ag_payability",
                                   "cu_conc_grade"},
                            v \in {None, Some(F(0 - 5, 0)), Some(Zero), Some(F(9665, 0 - 4)),
                                   Some(One), Some(F(15, 0 - 1)), Some(F(335, 0 - 1)),
                                   Some(Hundred), Some(F(150, 0))}}]
    /\ pm_out = Pending
    /\ NsrIdle /\ TrIdle /\ GsIdle /\ ServicesIdle

SpecSubFunctions ==
    InitSubFunctions /\ [][ComputeCuRecovery \/ ComputeConcRatio \/ ConstructNSRInput]_vars

\* ------------------------------------------------------------------------
\* _compute_nsr_for_value at two values of one variable
\* ------------------------------------------------------------------------

Trial ==
    /\ tr_pc = "called"
    /\ tr_out' = [lo |-> _compute_nsr_for_value(tr_in.base_input, tr_in.variable, tr_in.lo),
                  hi |-> _compute_nsr_for_value(tr_in.base_input, tr_in.variable, tr_in.hi)]
    /\ tr_pc' = IF tr_out'.lo.raised = "" /\ tr_out'.hi.raised = "" THEN "returned"
                ELSE "raised"
    /\ UNCHANGED <<tr_in, nsr_vars, pm_vars, gs_vars, alert, _registry>>

InitTrial ==
    /\ tr_pc = "called" /\ tr_in \in {t \in TrialInputs : Lt(t.lo, t.hi)}
    /\ tr_out = Pending
    /\ NsrIdle /\ PmIdle /\ GsIdle /\ ServicesIdle

SpecTrial == InitTrial /\ [][Trial]_vars

\* ------------------------------------------------------------------------
\* goal_seek as a call: one step per part, one per loop iteration
\* ------------------------------------------------------------------------

GsStep(outcome) ==
    /\ gs_pc' = outcome.pc
    /\ gs_loc' = outcome.loc
    /\ gs_calls' = outcome.calls
    /\ gs_ret' = outcome.ret
    /\ UNCHANGED <<gs_args, nsr_vars, pm_vars, tr_vars, alert, _registry>>

GsCurrent == gs_pc = "called" /\ GsStep(goal_seek_current(gs_args))

GsBounds == gs_pc = "bounds" /\ GsStep(goal_seek_bounds(gs_args, gs_loc, gs_calls))

GsBisect == gs_pc = "loop" /\ GsStep(goal_seek_bisect(gs_args, gs_loc, gs_calls))

GsFinal == gs_pc = "final" /\ GsStep(goal_seek_final(gs_args, gs_loc, gs_calls))

InitGoalSeek ==
    /\ gs_pc = "called" /\ gs_args \in GoalSeekArgs /\ gs_loc = Unbound
    /\ gs_calls = 0 /\ gs_ret = Pending
    /\ NsrIdle /\ PmIdle /\ TrIdle /\ ServicesIdle

NextGoalSeek == GsCurrent \/ GsBounds \/ GsBisect \/ GsFinal

SpecGoalSeek == InitGoalSeek /\ [][NextGoalSeek]_vars

\* ------------------------------------------------------------------------
\* compute_nsr_complete and goal_seek called concurrently
\* ------------------------------------------------------------------------

\* Both called, on inputs of their own.
InitConcurrent ==
    /\ nsr_pc = "called" /\ nsr_out = Pending
    /\ nsr_in \in {Golden, LowCopperPrice, RoundingTies,
                   [Golden EXCEPT !.cu_conc_grade = Some(F(1, 0 - 323))]}
    /\ gs_pc = "called" /\ gs_loc = Unbound /\ gs_calls = 0 /\ gs_ret = Pending
    /\ gs_args \in [base_input : {Golden, LowCopperPrice},
                    target_variable : {"cu_price", "cu_grade", "cu_tc", "ore_recovery"},
                    target_nsr : {Zero, F(200, 0)},
                    tolerance : {DEFAULT_TOLERANCE},
                    max_iterations : {1, DEFAULT_MAX_ITERATIONS}]
    /\ PmIdle /\ TrIdle /\ ServicesIdle

\* Any interleaving of the one step of compute_nsr_complete with the steps of
\* goal_seek.
SpecConcurrent == InitConcurrent /\ [][ComputeNsr \/ NextGoalSeek]_vars

\* goal_seek scheduled until it returns or raises: a call that can take a
\* step eventually takes it. This is WF_vars(NextGoalSeek) with
\* ENABLED <<NextGoalSeek>>_vars written out: a step is possible exactly when
\* the call has neither returned nor raised.
SpecGoalSeekFair ==
    /\ SpecGoalSeek
    /\ \/ []<>(gs_pc \in {"returned", "raised"})
       \/ []<><<NextGoalSeek>>_vars

\* ------------------------------------------------------------------------
\* price_providers/registry.py: PriceProviderRegistry
\* ------------------------------------------------------------------------

\* _registry is [_providers, _default_provider, _fallback_order]: the names
\* that are keys of the dict, the default provider as <<>> (None) or <<name>>,
\* and the list of names.

\* register(provider, set_as_default), name being provider.name
register(name, set_as_default) ==
    /\ _registry' =
         [_providers |-> _registry._providers \cup {name},
          _default_provider |->
             IF set_as_default \/ _registry._default_provider = <<>> THEN <<name>>
             ELSE _registry._default_provider,
          _fallback_order |->
             IF \A i \in DOMAIN _registry._fallback_order : _registry._fallback_order[i] # name
             THEN Append(_registry._fallback_order, name)
             ELSE _registry._fallback_order]
    /\ UNCHANGED <<nsr_vars, pm_vars, tr_vars, gs_vars, alert>>

\* unregister(name); list.remove takes the first occurrence out of the list.
unregister(name) ==
    LET order == _registry._fallback_order
        first == CHOOSE i \in DOMAIN order :
                    order[i] = name /\ \A j \in 1 .. (i - 1) : order[j] # name
        removed == IF \E i \in DOMAIN order : order[i] = name
                   THEN SubSeq(order, 1, first - 1) \o SubSeq(order, first + 1, Len(order))
                   ELSE order
    IN  /\ _registry' =
             IF name \in _registry._providers
             THEN [_providers |-> _registry._providers \ {name},
                   _default_provider |->
                      IF _registry._default_provider = <<name>>
                      THEN IF removed # <<>> THEN <<removed[1]>> ELSE <<>>
                      ELSE _registry._default_provider,
                   _fallback_order |-> removed]
             ELSE _registry
        /\ UNCHANGED <<nsr_vars, pm_vars, tr_vars, gs_vars, alert>>

set_default(name) ==
    /\ _registry' = IF name \in _registry._providers
                    THEN [_registry EXCEPT !._default_provider = <<name>>]
                    ELSE _registry
    /\ UNCHANGED <<nsr_vars, pm_vars, tr_vars, gs_vars, alert>>

\* "self._fallback_order = [n for n in order if n in self._providers]"
set_fallback_order(order) ==
    /\ _registry' =
         [_registry EXCEPT
            !._fallback_order = SelectSeq(order, LAMBDA n : n \in _registry._providers)]
    /\ UNCHANGED <<nsr_vars, pm_vars, tr_vars, gs_vars, alert>>

\* PriceProviderRegistry()
InitRegistry ==
    /\ _registry = [_providers |-> {}, _default_provider |-> <<>>, _fallback_order |-> <<>>]
    /\ alert = Pending
    /\ NsrIdle /\ PmIdle /\ TrIdle /\ GsIdle

\* Any sequence of calls, on the names of the three providers of the
\* application and on lists of up to two of them, repetitions included.
SpecRegistry ==
    InitRegistry
    /\ [][\E name \in {"metalpriceapi", "manual", "default"} :
            \/ \E set_as_default \in BOOLEAN : register(name, set_as_default)
            \/ unregister(name)
            \/ set_default(name)
            \/ \E second \in {"metalpriceapi", "manual", "default"} :
                  \E order \in {<<>>, <<name>>, <<name, second>>} :
                      set_fallback_order(order)]_vars

\* ------------------------------------------------------------------------
\* alert_checker.py: check_alerts_job on one scenario with alerts enabled
\* ------------------------------------------------------------------------

\* alert is [now, runs, is_email_configured, scenario, snapshots, emails]:
\* the time of the last run in hours, the number of runs, the scenario row,
\* the NsrSnapshot rows added and the calls of send_viability_alert. A
\* datetime that is None is <<>>, one that is set is <<hours>>.

MaxRuns == 3

\* In hours.
FREQUENCY_INTERVALS == [hourly |-> 1, daily |-> 24, weekly |-> 168]

\* The crossing test without the previous value.
crossed_up_without_previous(previous_nsr, current_nsr, target_nsr) ==
    Ge(current_nsr, target_nsr)

\* "if previous_nsr is not None: ... crossed_up = was_below and is_above"
crossed_up(previous_nsr, current_nsr, target_nsr) ==
    previous_nsr.some /\ Lt(previous_nsr.v, target_nsr) /\ Ge(current_nsr, target_nsr)

\* _process_scenario(session, scenario, prices, now): the job as it is after
\* the call; an exception, which check_alerts_job logs, leaves it as it was.
\* sent is what send_viability_alert returns.
_process_scenario(job, prices, now, sent) ==
    LET scenario == job.scenario
        base == scenario.base_inputs
        interval == get(FREQUENCY_INTERVALS, scenario.alert_frequency, 24)
        opt(key) == IF key \in DOMAIN base THEN Some(base[key]) ELSE None
        nsr_input ==
            NSRInput([mine |-> get(base, "mine", ""), area |-> get(base, "area", ""),
                      cu_grade |-> get(base, "cu_grade", Zero),
                      au_grade |-> get(base, "au_grade", Zero),
                      ag_grade |-> get(base, "ag_grade", Zero),
                      ore_tonnage |-> get(base, "ore_tonnage", F(1000, 0)),
                      mine_dilution |-> get(base, "mine_dilution", F(14, 0 - 2)),
                      ore_recovery |-> get(base, "ore_recovery", F(98, 0 - 2)),
                      cu_price |-> Some(prices.cu_price),
                      au_price |-> Some(prices.au_price),
                      ag_price |-> Some(prices.ag_price),
                      cu_payability |-> opt("cu_payability"), cu_tc |-> opt("cu_tc"),
                      cu_rc |-> opt("cu_rc"), cu_freight |-> opt("cu_freight")])
        Recorded(result, alerted) ==
            [job EXCEPT
               !.snapshots =
                  Append(@, [timestamp |-> now,
                             nsr_per_tonne |-> Round(result.nsr_per_tonne, 2),
                             nsr_cu |-> Round(result.nsr_cu, 2),
                             nsr_au |-> Round(result.nsr_au, 2),
                             nsr_ag |-> Round(result.nsr_ag, 2),
                             cu_price |-> prices.cu_price,
                             au_price |-> prices.au_price,
                             ag_price |-> prices.ag_price,
                             cu_tc |-> PyOr(opt("cu_tc"), DEFAULT_CU_TC),
                             cu_rc |-> PyOr(opt("cu_rc"), DEFAULT_CU_RC),
                             cu_freight |-> PyOr(opt("cu_freight"), DEFAULT_CU_FREIGHT),
                             is_viable |-> Ge(result.nsr_per_tonne, scenario.target_nsr)]),
               !.scenario.last_nsr_value = Some(result.nsr_per_tonne),
               !.scenario.alert_last_checked_at = <<now>>,
               !.scenario.alert_triggered_at = IF alerted /\ sent THEN <<now>> ELSE @,
               !.emails =
                  IF alerted
                  THEN Append(@, [recipient_email |-> scenario.alert_email,
                                  target_nsr |-> scenario.target_nsr,
                                  current_nsr |-> result.nsr_per_tonne,
                                  current_prices |-> prices])
                  ELSE @]
        Computed(result) ==
            IF result.raised # "" THEN job
            ELSE Recorded(result,
                          /\ crossed_up(scenario.last_nsr_value, result.nsr_per_tonne,
                                        scenario.target_nsr)
                          /\ scenario.alert_email # ""
                          /\ job.is_email_configured)
    IN  IF /\ scenario.alert_last_checked_at # <<>>
           /\ now - scenario.alert_last_checked_at[1] < interval
        THEN job
        ELSE IF nsr_input.raised # "" THEN job
        ELSE Computed(compute_nsr_complete(nsr_input.value))

\* One run of check_alerts_job, elapsed hours after the run before, with the
\* prices that _fetch_live_prices_sync returns.
check_alerts_job(elapsed, prices, sent) ==
    /\ alert.runs < MaxRuns
    /\ alert' = [_process_scenario(alert, prices, alert.now + elapsed, sent) EXCEPT
                    !.now = alert.now + elapsed,
                    !.runs = @ + 1]
    /\ UNCHANGED <<nsr_vars, pm_vars, tr_vars, gs_vars, _registry>>

\* A scenario just saved, never checked: the golden inputs, or inputs that
\* NSRInput rejects (the API stores any dict), the golden NSR as target, the
\* three frequencies and one that is not in the table (the column is a
\* string), with or without an address and a configured mail service.
InitAlert ==
    /\ alert \in
         {[now |-> 0, runs |-> 0, is_email_configured |-> mail[2],
           snapshots |-> <<>>, emails |-> <<>>,
           scenario |->
              [alert_frequency |-> alert_frequency,
               base_inputs |->
                  [mine |-> "Vermelhos UG", area |-> "Vermelhos Sul", cu_grade |-> cu_grade,
                   au_grade |-> F(23, 0 - 2), ag_grade |-> F(233, 0 - 2),
                   ore_tonnage |-> F(20000, 0)],
               target_nsr |-> F(14532, 0 - 2),
               alert_email |-> mail[1],
               alert_last_checked_at |-> <<>>,
               last_nsr_value |-> None,
               alert_triggered_at |-> <<>>]] :
            alert_frequency \in {"hourly", "daily", "weekly", "monthly"},
            cu_grade \in {F(14, 0 - 1), F(150, 0)},
            mail \in {<<"geology@example.com", TRUE>>, <<"", TRUE>>,
                      <<"geology@example.com", FALSE>>}}
    /\ _registry = Pending
    /\ NsrIdle /\ PmIdle /\ TrIdle /\ GsIdle

\* Runs an hour, a day or a week apart, at a copper price below the target's
\* or at the default prices; send_viability_alert, which only a scenario with
\* an address and a configured mail service can call, succeeds or fails.
SpecAlert ==
    InitAlert
    /\ [][\E elapsed \in {1, 24, 168}, cu_price \in {F(5, 0 - 1), DEFAULT_CU_PRICE_PER_LB},
             sent \in IF alert.scenario.alert_email # "" /\ alert.is_email_configured
                      THEN BOOLEAN ELSE {FALSE} :
             check_alerts_job(elapsed,
                              [cu_price |-> cu_price, au_price |-> DEFAULT_AU_PRICE_PER_OZ,
                               ag_price |-> DEFAULT_AG_PRICE_PER_OZ],
                              sent)]_vars

\* ------------------------------------------------------------------------
\* Properties
\* ------------------------------------------------------------------------

\* C1: whenever goal_seek returns converged = true, the pipeline re-run on
\* the base input with the variable set to the returned threshold_value
\* yields an nsr_per_tonne within tolerance of target_nsr.
C1_ConvergedWithinTolerance ==
    (gs_pc = "returned" /\ gs_ret.converged) =>
        LET rerun == _compute_nsr_for_value(gs_args.base_input, gs_args.target_variable,
                                            gs_ret.threshold_value)
        IN  /\ rerun.raised = ""
            /\ Le(Abs(Sub(rerun.value, gs_args.target_nsr)), gs_args.tolerance)

\* C2: when both bounds are evaluated and nsr(lower_bound) - target_nsr and
\* nsr(upper_bound) - target_nsr have the same sign, goal_seek returns
\* converged = false, iterations = 0, bound_hit naming the bound with the
\* smaller |nsr(bound) - target_nsr| and threshold_value equal to that bound
\* (either bound when the two are equally far); and for a revenue variable
\* whose upper bound stays below target_nsr the bound is "upper".
C2_SameSignReportsNearerBound ==
    LET registry == GOAL_SEEK_VARIABLES[gs_args.target_variable]
        f_lower == gs_loc.f_lower
        f_upper == gs_loc.f_upper
        Reports(hit, bound) == gs_ret.bound_hit = hit /\ gs_ret.threshold_value = bound
    IN  (\/ Gt(f_lower, Zero) /\ Gt(f_upper, Zero)
         \/ Lt(f_lower, Zero) /\ Lt(f_upper, Zero)) =>
            /\ gs_pc = "returned"
            /\ ~gs_ret.converged
            /\ gs_ret.iterations = 0
            /\ AbsLt(f_lower, f_upper) => Reports("lower", registry.lower_bound)
            /\ AbsLt(f_upper, f_lower) => Reports("upper", registry.upper_bound)
            /\ \/ Reports("lower", registry.lower_bound)
               \/ Reports("upper", registry.upper_bound)
            /\ (registry.direction = "revenue" /\ Lt(f_upper, Zero)) =>
                    Reports("upper", registry.upper_bound)

\* The current NSR is known and lies within tolerance of target_nsr.
C3_TargetAlreadyMet ==
    /\ gs_pc \in {"returned", "bounds", "loop", "final"}
    /\ Le(Abs(Sub(gs_loc.current_nsr, gs_args.target_nsr)), gs_args.tolerance)

\* C3 (as stated): if |current_nsr - target_nsr| <= tolerance, goal_seek
\* returns immediately with threshold_value == current_value, converged = true,
\* iterations = 0 and empty bound_hit.
C3_EarlyExitExact ==
    C3_TargetAlreadyMet =>
        /\ gs_pc = "returned" /\ gs_calls = 1
        /\ gs_ret.threshold_value = gs_loc.current_value
        /\ gs_ret.converged /\ gs_ret.iterations = 0 /\ gs_ret.bound_hit = ""

\* C3 (amended): if |current_nsr - target_nsr| <= tolerance, goal_seek returns
\* after the one pipeline call, with threshold_value == round(current_value, 6),
\* the current value itself reported as current_value, converged = true,
\* iterations = 0 and empty bound_hit.
C3_EarlyExitRounded ==
    C3_TargetAlreadyMet =>
        /\ gs_pc = "returned" /\ gs_calls = 1
        /\ gs_ret.threshold_value = Round(gs_loc.current_value, 6)
        /\ gs_ret.current_value = gs_loc.current_value
        /\ gs_ret.converged /\ gs_ret.iterations = 0 /\ gs_ret.bound_hit = ""

\* C3's case: an early exit at a current value of more than six decimals.
C3_EarlyExitReached ==
    /\ C3_TargetAlreadyMet
    /\ gs_pc = "returned"
    /\ gs_loc.current_value # Round(gs_loc.current_value, 6)

\* C4: whenever goal_seek returns converged = false with bound_hit set, no
\* value v of the variable's domain makes the pipeline, run on the base input
\* with the variable set to v, yield an NSR within tolerance of target_nsr.
C4_BoundHitNoRoot ==
    (gs_pc = "returned" /\ ~gs_ret.converged /\ gs_ret.bound_hit # "") =>
        \A v \in SamplePoints(gs_args.target_variable) :
            LET at_v == _compute_nsr_for_value(gs_args.base_input,
                                               gs_args.target_variable, v)
            IN  \/ at_v.raised # ""
                \/ Gt(Abs(Sub(at_v.value, gs_args.target_nsr)), gs_args.tolerance)

\* C5: with all other inputs fixed, nsr_per_tonne never decreases as a
\* "revenue" variable increases over its domain and never increases as a
\* "cost" variable increases (tr_in.lo < tr_in.hi).
C5_Monotonic ==
    tr_pc = "returned" =>
        IF GOAL_SEEK_VARIABLES[tr_in.variable].direction = "revenue"
        THEN Le(tr_out.lo.value, tr_out.hi.value)
        ELSE Ge(tr_out.lo.value, tr_out.hi.value)

C7_LossesExact ==
    nsr_pc = "returned" =>
        /\ nsr_out.dilution_loss = Sub(nsr_out.nsr_mineral_resources, nsr_out.nsr_mine)
        /\ nsr_out.recovery_loss = Sub(nsr_out.nsr_mine, nsr_out.nsr_processing)

\* C7 (amended): the returned dilution_loss lies within 0.01 of
\* nsr_mineral_resources - nsr_mine, and the returned recovery_loss within
\* 0.01 of nsr_mine - nsr_processing.
C7_LossesWithinOneCent ==
    nsr_pc = "returned" =>
        /\ Le(Abs(Sub(nsr_out.dilution_loss,
                      Sub(nsr_out.nsr_mineral_resources, nsr_out.nsr_mine))),
              F(1, 0 - 2))
        /\ Le(Abs(Sub(nsr_out.recovery_loss,
                      Sub(nsr_out.nsr_mine, nsr_out.nsr_processing))),
              F(1, 0 - 2))

\* C7's case: a result with a dilution loss, whose recovery_loss is a cent
\* away from nsr_mine - nsr_processing.
C7_OneCentApart ==
    /\ nsr_pc = "returned"
    /\ Gt(nsr_out.dilution_loss, Zero)
    /\ Abs(Sub(nsr_out.recovery_loss, Sub(nsr_out.nsr_mine, nsr_out.nsr_processing)))
        = F(1, 0 - 2)

\* C8: for each optional price and commercial-term input, the value
\* compute_nsr_complete uses is the supplied value whenever one is supplied,
\* a supplied 0 included, and the default constant only when it is absent.
C8_SuppliedValueUsed ==
    LET defaults ==
            [cu_price |-> DEFAULT_CU_PRICE_PER_LB, au_price |-> DEFAULT_AU_PRICE_PER_OZ,
             ag_price |-> DEFAULT_AG_PRICE_PER_OZ, cu_payability |-> DEFAULT_CU_PAYABILITY,
             cu_tc |-> DEFAULT_CU_TC, cu_rc |-> DEFAULT_CU_RC,
             cu_freight |-> DEFAULT_CU_FREIGHT, cu_penalties |-> DEFAULT_CU_PENALTIES,
             au_payability |-> DEFAULT_AU_PAYABILITY, au_rc |-> DEFAULT_AU_RC,
             ag_payability |-> DEFAULT_AG_PAYABILITY, ag_rc |-> DEFAULT_AG_RC,
             cu_conc_grade |-> DEFAULT_CU_CONC_GRADE]
    IN  nsr_pc = "returned" =>
            /\ \A f \in DOMAIN defaults \ {"cu_penalties"} :
                    nsr_out.inputs_used[f] = IfNotNone(nsr_in[f], defaults[f])
            /\ \A f \in DOMAIN defaults :
                    OptionalParameters(nsr_in)[f] = IfNotNone(nsr_in[f], defaults[f])

\* C9: for every NSRInput that passes the field constraints,
\* compute_nsr_complete returns an NSRResult and raises no error.
C9_Total == nsr_pc # "raised"

\* C10: compute_payable_metal raises ValueError exactly when tonnage < 0, or
\* recovery or payability lies outside [0, 1], or grade_unit is neither "%" nor
\* "g/t"; otherwise it returns tonnage * grade_fraction * recovery * payability
\* with grade_fraction = grade / 100 for "%" and grade / 1,000,000 for "g/t".
C10_PayableMetal ==
    LET invalid ==
            \/ Lt(pm_in.tonnage, Zero)
            \/ Lt(pm_in.recovery, Zero) \/ Gt(pm_in.recovery, One)
            \/ Lt(pm_in.payability, Zero) \/ Gt(pm_in.payability, One)
            \/ pm_in.grade_unit \notin {"%", "g/t"}
        grade_fraction ==
            IF pm_in.grade_unit = "%" THEN Div(pm_in.grade, Hundred)
            ELSE Div(pm_in.grade, F(1000000, 0))
    IN  pm_pc # "called" =>
            IF invalid THEN pm_pc = "raised" /\ pm_out.raised = "ValueError"
            ELSE /\ pm_pc = "returned"
                 /\ pm_out.value = Mul(Mul(Mul(pm_in.tonnage, grade_fraction),
                                           pm_in.recovery), pm_in.payability)

\* C10's case: a payable quantity returned for a grade in g/t at payability 1.
C10_PayableMetalReturned ==
    /\ pm_pc = "returned"
    /\ pm_in.grade_unit = "g/t"
    /\ pm_in.payability = One
    /\ Gt(pm_out.value, Zero)

\* C11: compute_conc_ratio called with cu_conc_grade_pct = 0 fails with
\* InvalidParameter (ValueError): it returns no value and fails with no other
\* kind of error.
C11_ZeroConcGradeRejected ==
    (/\ pm_pc # "called"
     /\ pm_in.fn = "compute_conc_ratio"
     /\ pm_in.cu_conc_grade_pct = Zero)
    => (pm_pc = "raised" /\ pm_out.raised = "ValueError")

\* C20: compute_cu_recovery follows the reference rule: min(fixed / 100, 1)
\* whatever the grade when the area has a fixed value (0.929 for
\* "Deepening Above - 965"), else min((a * cu_grade_pct + b) / 100, 1), an
\* area that is not in the table (exact match) using a = 3.0, b = 90.0.
C20_CuRecoveryRule ==
    (pm_pc = "returned" /\ pm_in.fn = "compute_cu_recovery")
    => LET Linear(a, b) == Min(Div(Add(Mul(a, pm_in.cu_grade_pct), b), Hundred), One)
       IN  /\ pm_in.area = "Deepening Above - 965" => pm_out.value = F(929, 0 - 3)
           /\ pm_in.area \notin DOMAIN RECOVERY_PARAMS
                => pm_out.value = Linear(F(3, 0), F(90, 0))
           /\ pm_in.area \in DOMAIN RECOVERY_PARAMS
                => IF RECOVERY_PARAMS[pm_in.area].fixed # None
                   THEN pm_out.value
                            = Min(Div(RECOVERY_PARAMS[pm_in.area].fixed.v, Hundred), One)
                   ELSE pm_out.value = Linear(RECOVERY_PARAMS[pm_in.area].a,
                                              RECOVERY_PARAMS[pm_in.area].b)

\* C20 happens: the fixed area at a grade whose linear formula would give 1.0,
\* returning 0.929.
C20_FixedAreaReturned ==
    /\ pm_pc = "returned" /\ pm_in.fn = "compute_cu_recovery"
    /\ pm_in.area = "Deepening Above - 965" /\ pm_in.cu_grade_pct = F(10, 0)
    /\ pm_out.value = F(929, 0 - 3)

\* C21: for a copper grade from 0 to 100 and any area, compute_cu_recovery
\* returns a recovery r with 0 < r <= 1; a raw recovery (fixed / 100 or
\* (a * grade + b) / 100) above 1 is returned as exactly 1.0.
C21_RecoveryInUnitInterval ==
    (pm_pc # "called" /\ pm_in.fn = "compute_cu_recovery")
    => LET params == IF pm_in.area \in DOMAIN RECOVERY_PARAMS
                     THEN RECOVERY_PARAMS[pm_in.area] ELSE DEFAULT_RECOVERY_PARAMS
           raw == IF params.fixed # None THEN Div(params.fixed.v, Hundred)
                  ELSE Div(Add(Mul(params.a, pm_in.cu_grade_pct), params.b), Hundred)
       IN  /\ pm_pc = "returned"
           /\ Gt(pm_out.value, Zero) /\ Le(pm_out.value, One)
           /\ Gt(raw, One) => pm_out.value = One

\* C21 happens: an area whose linear formula exceeds 100 % at grade 2 has
\* returned exactly 1.0.
C21_ClampedToOne ==
    /\ pm_pc = "returned" /\ pm_in.fn = "compute_cu_recovery"
    /\ pm_in.area = "P1P2W" /\ pm_in.cu_grade_pct = F(2, 0)
    /\ pm_out.value = One

\* C22: every NSRInput that has been constructed satisfies the data-model
\* invariant: grades non-negative, mine_dilution, ore_recovery and the
\* supplied cu/au/ag payabilities in [0, 1], a supplied cu_conc_grade in
\* (0, 100]; the construction of a record that violates it is rejected.
C22_InvariantEnforced ==
    (pm_pc # "called" /\ pm_in.fn = "NSRInput")
    => LET d == pm_in.data
           Fraction(x) == Ge(x, Zero) /\ Le(x, One)
           OptFraction(opt) == opt = None \/ Fraction(opt.v)
           invariant ==
               /\ Ge(d.cu_grade, Zero) /\ Ge(d.au_grade, Zero) /\ Ge(d.ag_grade, Zero)
               /\ Fraction(d.mine_dilution) /\ Fraction(d.ore_recovery)
               /\ OptFraction(d.cu_payability) /\ OptFraction(d.au_payability)
               /\ OptFraction(d.ag_payability)
               /\ d.cu_conc_grade = None
                    \/ (Gt(d.cu_conc_grade.v, Zero) /\ Le(d.cu_conc_grade.v, Hundred))
       IN  /\ pm_pc = "returned" => invariant /\ pm_out.value = d
           /\ ~invariant => pm_pc = "raised" /\ pm_out.raised = "ValidationError"

C24_IntervalBracketsSignChange ==
    gs_pc = "loop"
    => LET registry == GOAL_SEEK_VARIABLES[gs_args.target_variable]
           f(x) == Sub(_compute_nsr_for_value(gs_args.base_input, gs_args.target_variable,
                                              x).value, gs_args.target_nsr)
       IN  /\ Le(registry.lower_bound, gs_loc.a) /\ Lt(gs_loc.a, gs_loc.b)
           /\ Le(gs_loc.b, registry.upper_bound)
           /\ ~Gt(Mul(f(gs_loc.a), f(gs_loc.b)), Zero)
           /\ gs_loc.fa = f(gs_loc.a)

C25_ZeroCopperGradeGivesZero ==
    (nsr_pc # "called" /\ nsr_in.cu_grade = Zero)
    => LET s == Step3(Step2(Step1(OptionalParameters(nsr_in))))
       IN  /\ nsr_pc = "returned"
           /\ nsr_out.conc_ratio = Zero
           /\ s.au_in_conc = Zero /\ s.ag_in_conc = Zero
           /\ nsr_out.nsr_cu = Zero /\ nsr_out.nsr_au = Zero /\ nsr_out.nsr_ag = Zero
           /\ nsr_out.nsr_per_tonne = Zero
           /\ nsr_out.revenue_total = Zero

\* C25 happens: an input without copper, with gold and silver in the ore, has
\* returned an NSR of 0.
C25_GoldWithoutCopperReturned ==
    /\ nsr_pc = "returned" /\ nsr_in.cu_grade = Zero
    /\ Gt(nsr_in.au_grade, Zero) /\ Gt(nsr_in.ag_grade, Zero)
    /\ nsr_out.nsr_per_tonne = Zero

\* C26: when mine_factor = (1 - mine_dilution) * ore_recovery is 0,
\* compute_nsr_complete does not divide by zero: it returns
\* nsr_mineral_resources equal to nsr_mine and dilution_loss = 0; when
\* mine_factor > 0 the nsr_mineral_resources it returns is nsr_mine /
\* mine_factor (the quotient of the values computed, rounded to 2 decimals).
C26_MineFactorZeroGuarded ==
    nsr_pc # "called"
    => LET mine_factor == Mul(Sub(One, nsr_in.mine_dilution), nsr_in.ore_recovery)
           s == CascadeSelling(CascadeGross(Step5(Step4(Step3(Step2(Step1(
                    OptionalParameters(nsr_in))))))))
           nsr_mine == Add(Add(s.nsr_total, s.selling_costs_per_tonne), s.recovery_loss)
       IN  /\ mine_factor = Zero
                => /\ nsr_pc = "returned"
                   /\ nsr_out.nsr_mineral_resources = nsr_out.nsr_mine
                   /\ nsr_out.dilution_loss = Zero
           /\ (Gt(mine_factor, Zero) /\ nsr_pc = "returned")
                => /\ nsr_out.nsr_mine = Round(nsr_mine, 2)
                   /\ nsr_out.nsr_mineral_resources = Round(Div(nsr_mine, mine_factor), 2)

\* C26 happens: an input with mine_dilution = 1 has returned a non-zero
\* nsr_mine, repeated as nsr_mineral_resources.
C26_FullDilutionReturned ==
    /\ nsr_pc = "returned" /\ nsr_in.mine_dilution = One
    /\ nsr_out.nsr_mine # Zero /\ nsr_out.nsr_mineral_resources = nsr_out.nsr_mine

\* C12: a target_variable that is not a key of GOAL_SEEK_VARIABLES makes
\* goal_seek raise GoalSeekError before the pipeline is evaluated once, and no
\* result is returned; a registry member is accepted: the pipeline is
\* evaluated and GoalSeekError is not raised.
C12_UnsupportedVariableRejected ==
    gs_pc # "called"
    => IF gs_args.target_variable \notin DOMAIN GOAL_SEEK_VARIABLES
       THEN gs_pc = "raised" /\ gs_ret = [raised |-> "GoalSeekError"] /\ gs_calls = 0
       ELSE gs_calls >= 1 /\ gs_ret.raised # "GoalSeekError"

\* C12 happens: a name that is a field of NSRInput but not in the registry
\* has been rejected.
C12_FieldOutsideRegistryRejected ==
    /\ gs_pc = "raised" /\ gs_args.target_variable = "ore_recovery"
    /\ gs_ret.raised = "GoalSeekError" /\ gs_calls = 0

\* C13: for a registry variable the current value resolves: it is the field
\* of the input when the field is set, its documented default otherwise, and
\* GoalSeekError is not raised.
C13_CurrentValueResolved ==
    (gs_pc # "called" /\ gs_args.target_variable \in DOMAIN GOAL_SEEK_VARIABLES)
    => LET field == gs_args.base_input[gs_args.target_variable]
           documented ==
               [cu_price |-> F(628, 0 - 2), au_price |-> F(5360, 0),
                ag_price |-> F(11639, 0 - 2), cu_tc |-> F(40, 0), cu_rc |-> F(19, 0 - 1),
                cu_freight |-> F(84, 0), cu_penalties |-> Zero]
       IN  /\ gs_ret.raised # "GoalSeekError"
           /\ gs_loc.current_value =
                IF gs_args.target_variable \notin OptionalFields THEN field
                ELSE IF field # None THEN field.v
                ELSE documented[gs_args.target_variable]

\* C13 happens: the current value of cu_penalties, absent from the input, has
\* been resolved and the pipeline evaluated with it.
C13_DefaultResolved ==
    /\ gs_pc \in {"bounds", "returned"} /\ gs_args.target_variable = "cu_penalties"
    /\ gs_args.base_input.cu_penalties = None
    /\ gs_loc.current_value = DEFAULT_CU_PENALTIES /\ gs_calls >= 1

C15_TerminatesWithinMaxIterations ==
    /\ [](/\ gs_loc.iterations \in 0 .. gs_args.max_iterations
          /\ gs_pc = "returned" => gs_ret.iterations \in 0 .. gs_args.max_iterations
          /\ (gs_pc = "loop" /\ gs_loc.i > 0)
                => /\ gs_loc.iterations = gs_loc.i
                   /\ ~Le(Abs(gs_loc.f_mid), gs_args.tolerance))
    /\ <>(gs_pc \in {"returned", "raised"})

\* C15 happens: the loop has stopped before max_iterations, at a midpoint
\* within the tolerance.
C15_StoppedAtTolerance ==
    /\ gs_pc = "returned"
    /\ gs_ret.iterations > 1 /\ gs_ret.iterations < gs_args.max_iterations
    /\ Le(Abs(gs_loc.f_mid), gs_args.tolerance)

\* C16 as stated: one call of goal_seek evaluates the pipeline at most
\* max_iterations + 2 times.
C16_CallsWithinMaxPlusTwo == gs_calls <= gs_args.max_iterations + 2

\* C16 amended: one call of goal_seek evaluates the pipeline at most
\* max_iterations + 4 times (the current value, the two bounds, one midpoint
\* per iteration, the threshold), and at most iterations + 4 times.
C16_CallsWithinMaxPlusFour ==
    /\ gs_calls <= gs_args.max_iterations + 4
    /\ gs_calls <= gs_loc.iterations + 4

\* C16 happens: a call has returned after max_iterations + 4 evaluations.
C16_MaxPlusFourCalls ==
    /\ gs_pc = "returned" /\ gs_args.max_iterations = 1
    /\ gs_calls = gs_args.max_iterations + 4

C18_EbitdaWhenCostSupplied ==
    nsr_pc = "returned"
    => LET cost(f, default) == IF nsr_in[f] # None THEN nsr_in[f].v ELSE default
           per_tonne(f, default) == Round(Mul(cost(f, default), nsr_in.ore_tonnage), 2)
       IN  /\ nsr_out.ebitda # None
                <=> \E f \in {"mine_cost", "development_cost", "haul_cost", "plant_cost",
                               "ga_cost"} : nsr_in[f] # None
           /\ nsr_out.ebitda # None
                => /\ nsr_out.ebitda.v.mine_cost_total
                        = per_tonne("mine_cost", DEFAULT_MINE_COST)
                   /\ nsr_out.ebitda.v.development_cost_total
                        = Round(Mul(cost("development_cost", DEFAULT_DEVELOPMENT_COST),
                                    cost("development_meters", DEFAULT_DEVELOPMENT_METERS)),
                                2)
                   /\ nsr_out.ebitda.v.haul_cost_total
                        = per_tonne("haul_cost", DEFAULT_HAUL_COST)
                   /\ nsr_out.ebitda.v.plant_cost_total
                        = per_tonne("plant_cost", DEFAULT_PLANT_COST)
                   /\ nsr_out.ebitda.v.ga_cost_total = per_tonne("ga_cost", DEFAULT_GA_COST)

\* C18 happens: mine_cost supplied as 0 and nothing else gives a breakdown
\* with no mining cost and the default haul cost.
C18_ZeroCostGivesEbitda ==
    /\ nsr_pc = "returned"
    /\ nsr_in.mine_cost = Some(Zero) /\ nsr_in.haul_cost = None
    /\ nsr_out.ebitda # None
    /\ nsr_out.ebitda.v.mine_cost_total = Zero
    /\ nsr_out.ebitda.v.haul_cost_total = Mul(DEFAULT_HAUL_COST, nsr_in.ore_tonnage)

\* C19: inputs_used holds every field of NSRInput with its resolved value:
\* the supplied value, or the default applied when the field was absent (for
\* a cost field, the default applied when the EBITDA breakdown is computed).
C19_InputsUsedEchoesAll ==
    nsr_pc = "returned"
    => LET default ==
               [cu_price |-> DEFAULT_CU_PRICE_PER_LB, au_price |-> DEFAULT_AU_PRICE_PER_OZ,
                ag_price |-> DEFAULT_AG_PRICE_PER_OZ,
                cu_payability |-> DEFAULT_CU_PAYABILITY, cu_tc |-> DEFAULT_CU_TC,
                cu_rc |-> DEFAULT_CU_RC, cu_freight |-> DEFAULT_CU_FREIGHT,
                cu_penalties |-> DEFAULT_CU_PENALTIES,
                au_payability |-> DEFAULT_AU_PAYABILITY, au_rc |-> DEFAULT_AU_RC,
                ag_payability |-> DEFAULT_AG_PAYABILITY, ag_rc |-> DEFAULT_AG_RC,
                cu_conc_grade |-> DEFAULT_CU_CONC_GRADE,
                mine_cost |-> DEFAULT_MINE_COST,
                development_cost |-> DEFAULT_DEVELOPMENT_COST,
                development_meters |-> DEFAULT_DEVELOPMENT_METERS,
                haul_cost |-> DEFAULT_HAUL_COST, plant_cost |-> DEFAULT_PLANT_COST,
                ga_cost |-> DEFAULT_GA_COST]
           resolved(f) == IF nsr_in[f] # None THEN nsr_in[f].v ELSE default[f]
           \* a float echoed as it is, or as an Optional[float] that is set
           holds(echoed, value) ==
               IF "some" \in DOMAIN echoed THEN echoed = Some(value) ELSE echoed = value
       IN  \A f \in DOMAIN nsr_in :
              /\ f \in DOMAIN nsr_out.inputs_used
              /\ IF f \notin OptionalFields THEN nsr_out.inputs_used[f] = nsr_in[f]
                 ELSE IF /\ f \in {"mine_cost", "development_cost", "development_meters",
                                    "haul_cost", "plant_cost", "ga_cost"}
                         /\ nsr_in[f] = None
                         /\ nsr_out.ebitda = None
                 THEN nsr_out.inputs_used[f] = None
                 ELSE holds(nsr_out.inputs_used[f], resolved(f))

\* C30: after any sequence of register, unregister, set_default and
\* set_fallback_order calls, the default provider is None or the name of a
\* registered provider, and every name of the fallback order is the name of a
\* registered provider.
C30_DefaultAndFallbackRegistered ==
    _registry # Pending
    => /\ \A i \in DOMAIN _registry._default_provider :
              _registry._default_provider[i] \in _registry._providers
       /\ \A i \in DOMAIN _registry._fallback_order :
              _registry._fallback_order[i] \in _registry._providers

\* What one step from the job before to the job after shows: whether the
\* frequency interval had elapsed, whether a snapshot was recorded, whether
\* an alert email was sent, and whether the step keeps the rules of the
\* alerts: an email is sent only in a run that recorded a snapshot when the
\* interval had elapsed, the previous last_nsr_value was below target_nsr and
\* the new NSR is at or above it; such a run records one snapshot, the new NSR
\* as last_nsr_value and the time as alert_last_checked_at; any other run
\* leaves the scenario, the snapshots and the emails as they were.
C29_Run(before, after) ==
    LET scenario == before.scenario
        interval == IF scenario.alert_frequency = "hourly" THEN 1
                    ELSE IF scenario.alert_frequency = "weekly" THEN 168
                    ELSE 24
        due == \/ scenario.alert_last_checked_at = <<>>
               \/ after.now - scenario.alert_last_checked_at[1] >= interval
        processed == Len(after.snapshots) > Len(before.snapshots)
        emailed == Len(after.emails) > Len(before.emails)
        snapshot == after.snapshots[Len(after.snapshots)]
    IN  [due |-> due,
         processed |-> processed,
         kept |->
            /\ emailed
                 => /\ processed
                    /\ Len(after.emails) = Len(before.emails) + 1
                    /\ scenario.last_nsr_value # None
                    /\ Lt(scenario.last_nsr_value.v, scenario.target_nsr)
                    /\ Ge(after.scenario.last_nsr_value.v, scenario.target_nsr)
            /\ processed
                 => /\ due
                    /\ Len(after.snapshots) = Len(before.snapshots) + 1
                    /\ snapshot.timestamp = after.now
                    /\ after.scenario.last_nsr_value = Some(snapshot.nsr_per_tonne)
                    /\ after.scenario.alert_last_checked_at = <<after.now>>
            /\ ~processed
                 => /\ after.scenario = scenario
                    /\ after.snapshots = before.snapshots
                    /\ after.emails = before.emails]

====
